---- MODULE Spec2Model ----
(***************************************************************************)
(* A model of the APQR Compiler (src/compiler.py): Compiler.compile and    *)
(* the six pipeline stages it calls, one action per stage.                 *)
(*                                                                         *)
(* Text is modelled by TLA+ strings, character by character (Len, \o and   *)
(* SubSeq on strings).  Two non-ASCII pieces of text of the source are     *)
(* written with ASCII stand-ins of the same length in code points:         *)
(*   the bullet U+2022 (1 code point)                 is written  "*"      *)
(*   the warning sign U+26A0 U+FE0F (2 code points)   is written  "!~"     *)
(* No input text of the model contains the characters "*", "!" or "~".     *)
(*                                                                         *)
(* Python values are tagged records:                                       *)
(*   a str     [kind |-> "str",  s |-> "PASS"]                             *)
(*   an int    [kind |-> "int",  n |-> 1]                                  *)
(*   a list    [kind |-> "list", elems |-> <<...>>]                        *)
(*   a dict    [kind |-> "dict", items |-> << [key |-> k, value |-> v] >>] *)
(* with the items of a dict in insertion order and their keys distinct.    *)
(***************************************************************************)
EXTENDS Integers, Sequences, FiniteSets, TLC

VARIABLES
    max_summary_length,                \* Compiler.max_summary_length
    enable_contradiction_detection,    \* Compiler.enable_contradiction_detection
    query,                             \* compile's argument
    responses,                         \* compile's argument
    pc,                                \* compile's position
    deduplicated,                      \* compile's locals ...
    prioritized,
    contradictions,
    summary,
    citations,
    details,
    compilation_result,                \* what compile returned (None before)
    other                              \* the frame of compile in another thread

vars == << max_summary_length, enable_contradiction_detection, query, responses,
           pc, deduplicated, prioritized, contradictions, summary, citations,
           details, compilation_result, other >>

---------------------------------------------------------------------------
(* Python values *)

StrV(s) == [kind |-> "str", s |-> s]

IntV(n) == [kind |-> "int", n |-> n]

ListV(elems) == [kind |-> "list", elems |-> elems]

DictV(items) == [kind |-> "dict", items |-> items]

Item(k, v) == [key |-> k, value |-> v]

\* isinstance(v, dict)
IsDict(v) == v.kind = "dict"

\* list(d.keys())
Keys(d) == [i \in 1..Len(d.items) |-> d.items[i].key]

\* key in d
HasKey(d, k) == \E i \in 1..Len(d.items) : d.items[i].key = k

\* d[k], for a key d has
Lookup(d, k) == d.items[CHOOSE i \in 1..Len(d.items) : d.items[i].key = k].value

---------------------------------------------------------------------------
(* Text *)

\* The i-th character of s
CharAt(s, i) == SubSeq(s, i, i)

\* The characters that occur in field names (digits, letters and the
\* underscore), in code-point order.
AsciiOrder == "0123456789ABCDEFGHIJKLMNOPQRSTUVWXYZ_abcdefghijklmnopqrstuvwxyz"

\* ord(c), up to a monotone renumbering
Ord(c) == CHOOSE i \in 1..Len(AsciiOrder) : CharAt(AsciiOrder, i) = c

UpperChars == "ABCDEFGHIJKLMNOPQRSTUVWXYZ"

LowerChars == "abcdefghijklmnopqrstuvwxyz"

\* c.lower() of one character
LowerChar(c) ==
    IF \E i \in 1..Len(UpperChars) : CharAt(UpperChars, i) = c
    THEN CharAt(LowerChars, CHOOSE i \in 1..Len(UpperChars) : CharAt(UpperChars, i) = c)
    ELSE c

\* s.lower()
RECURSIVE Lower(_)
Lower(s) ==
    IF s = "" THEN ""
    ELSE LowerChar(CharAt(s, 1)) \o Lower(SubSeq(s, 2, Len(s)))

\* c.isspace() for the white space the model's text holds
IsSpace(c) == c \in {" ", "\n", "\t"}

\* s.split(): the maximal runs of non-space characters, in order.
\* cur is the run being read, out the runs read so far.
RECURSIVE SplitFrom(_, _, _, _)
SplitFrom(s, i, cur, out) ==
    IF i > Len(s) THEN (IF cur = "" THEN out ELSE Append(out, cur))
    ELSE IF IsSpace(CharAt(s, i))
         THEN SplitFrom(s, i + 1, "", IF cur = "" THEN out ELSE Append(out, cur))
         ELSE SplitFrom(s, i + 1, cur \o CharAt(s, i), out)

Split(s) == SplitFrom(s, 1, "", << >>)

\* sep.join(parts)
RECURSIVE Join(_, _)
Join(sep, parts) ==
    IF parts = << >> THEN ""
    ELSE IF Len(parts) = 1 THEN parts[1]
    ELSE parts[1] \o sep \o Join(sep, Tail(parts))

\* set(seq)
Range(seq) == {seq[i] : i \in 1..Len(seq)}

\* a < b for strings, as Python compares them (by code point, a proper
\* prefix first)
RECURSIVE StrLess(_, _)
StrLess(a, b) ==
    IF b = "" THEN FALSE
    ELSE IF a = "" THEN TRUE
    ELSE IF CharAt(a, 1) = CharAt(b, 1)
         THEN StrLess(SubSeq(a, 2, Len(a)), SubSeq(b, 2, Len(b)))
         ELSE Ord(CharAt(a, 1)) < Ord(CharAt(b, 1))

Digits == "0123456789"

\* str(n) of an int
RECURSIVE IntToStr(_)
IntToStr(n) ==
    IF n < 0 THEN "-" \o IntToStr(0 - n)
    ELSE IF n < 10 THEN CharAt(Digits, n + 1)
    ELSE IntToStr(n \div 10) \o CharAt(Digits, (n % 10) + 1)

\* s[:k], Python's slice: a negative k counts from the end
SliceTo(s, k) ==
    LET stop == IF k < 0 THEN (IF Len(s) + k < 0 THEN 0 ELSE Len(s) + k)
                ELSE (IF k > Len(s) THEN Len(s) ELSE k)
    IN  SubSeq(s, 1, stop)

\* str(v), which is also what an f-string's {v} writes
PyStr(v) ==
    CASE v.kind = "str" -> v.s
      [] v.kind = "int" -> IntToStr(v.n)

---------------------------------------------------------------------------
(* Response bundles: Python dicts with the keys "agent" and "results",     *)
(* modelled as records; a key the dict lacks is a field the record lacks.  *)

\* As GetAgent, but a bundle without the key has the empty name
GetAgentOrEmpty(response) ==
    IF "agent" \in DOMAIN response THEN response.agent ELSE ""

\* response.get("agent", "Unknown")
GetAgent(response) ==
    IF "agent" \in DOMAIN response THEN response.agent ELSE "Unknown"

\* response.get("results", [])
GetResults(response) ==
    IF "results" \in DOMAIN response THEN response.results ELSE << >>

\* response.get("relevance_scores", [])
GetScores(response) ==
    IF "relevance_scores" \in DOMAIN response THEN response.relevance_scores ELSE << >>

---------------------------------------------------------------------------
(* Stage 1: deduplication *)

ReservedFields == {"timestamp", "id", "metadata"}

\* sorted(keys) of distinct strings: insertion into an ascending list
RECURSIVE InsertSorted(_, _)
InsertSorted(k, sorted) ==
    IF sorted = << >> THEN << k >>
    ELSE IF StrLess(k, sorted[1]) THEN << k >> \o sorted
    ELSE << sorted[1] >> \o InsertSorted(k, Tail(sorted))

RECURSIVE SortedKeys(_)
SortedKeys(keys) ==
    IF keys = << >> THEN << >>
    ELSE InsertSorted(keys[1], SortedKeys(Tail(keys)))

\* KeyParts with no field left out
RECURSIVE KeyPartsAllFields(_, _)
KeyPartsAllFields(res, keys) ==
    IF keys = << >> THEN << >>
    ELSE << keys[1] \o ":" \o PyStr(Lookup(res, keys[1])) >>
         \o KeyPartsAllFields(res, Tail(keys))

\* The key_parts of a dict: "key:value" for every sorted key that is not reserved
RECURSIVE KeyParts(_, _)
KeyParts(res, keys) ==
    IF keys = << >> THEN << >>
    ELSE IF keys[1] \in ReservedFields THEN KeyParts(res, Tail(keys))
    ELSE << keys[1] \o ":" \o PyStr(Lookup(res, keys[1])) >>
         \o KeyParts(res, Tail(keys))

\* Compiler._create_content_key
CreateContentKey(res) ==
    IF IsDict(res)
    THEN Join("|", KeyParts(res, SortedKeys(Keys(res))))
    ELSE Join("|", << PyStr(res) >>)

\* DedupResults that puts a new result in front of the ones it already has
RECURSIVE DedupResultsNewestFirst(_, _, _, _)
DedupResultsNewestFirst(results, i, seen, unique) ==
    IF i > Len(results) THEN [seen |-> seen, unique |-> unique]
    ELSE LET content_key == CreateContentKey(results[i])
         IN  IF content_key \notin seen
             THEN DedupResultsNewestFirst(results, i + 1, seen \cup {content_key},
                                          << results[i] >> \o unique)
             ELSE DedupResultsNewestFirst(results, i + 1, seen, unique)

\* DedupResults that never adds a key to the seen set
RECURSIVE DedupResultsNoAdd(_, _, _, _)
DedupResultsNoAdd(results, i, seen, unique) ==
    IF i > Len(results) THEN [seen |-> seen, unique |-> unique]
    ELSE LET content_key == CreateContentKey(results[i])
         IN  IF content_key \notin seen
             THEN DedupResultsNoAdd(results, i + 1, seen, Append(unique, results[i]))
             ELSE DedupResultsNoAdd(results, i + 1, seen, unique)

\* The inner loop of _deduplicate_responses over one bundle's results:
\* the seen_content set and unique_results after results[i..]
RECURSIVE DedupResults(_, _, _, _)
DedupResults(results, i, seen, unique) ==
    IF i > Len(results) THEN [seen |-> seen, unique |-> unique]
    ELSE LET content_key == CreateContentKey(results[i])
         IN  IF content_key \notin seen
             THEN DedupResults(results, i + 1, seen \cup {content_key},
                               Append(unique, results[i]))
             ELSE DedupResults(results, i + 1, seen, unique)

\* DedupFrom with the seen set started afresh for every bundle
RECURSIVE DedupFromPerBundle(_, _, _, _)
DedupFromPerBundle(resps, i, seen, out) ==
    IF i > Len(resps) THEN out
    ELSE LET agent == GetAgent(resps[i])
             r == DedupResults(GetResults(resps[i]), 1, {}, << >>)
         IN  DedupFromPerBundle(resps, i + 1, r.seen,
                       IF r.unique # << >>
                       THEN Append(out, [agent |-> agent, results |-> r.unique])
                       ELSE out)

\* As DedupFrom, but the unique results of a bundle are added to the bundle
\* of the same source name when the output already has one
RECURSIVE DedupFromMergedByName(_, _, _, _)
DedupFromMergedByName(resps, i, seen, out) ==
    IF i > Len(resps) THEN out
    ELSE LET agent == GetAgent(resps[i])
             r == DedupResults(GetResults(resps[i]), 1, seen, << >>)
         IN  DedupFromMergedByName(resps, i + 1, r.seen,
                 IF r.unique = << >> THEN out
                 ELSE IF \E k \in 1..Len(out) : out[k].agent = agent
                 THEN [k \in 1..Len(out) |->
                          IF out[k].agent = agent
                          THEN [agent |-> agent, results |-> out[k].results \o r.unique]
                          ELSE out[k]]
                 ELSE Append(out, [agent |-> agent, results |-> r.unique]))

\* As DedupFrom, but the test is on the bundle's results as given: a bundle
\* whose results were all seen before is kept with no result
RECURSIVE DedupFromKeepsEmptied(_, _, _, _)
DedupFromKeepsEmptied(resps, i, seen, out) ==
    IF i > Len(resps) THEN out
    ELSE LET agent == GetAgent(resps[i])
             r == DedupResults(GetResults(resps[i]), 1, seen, << >>)
         IN  DedupFromKeepsEmptied(resps, i + 1, r.seen,
                       IF GetResults(resps[i]) # << >>
                       THEN Append(out, [agent |-> agent, results |-> r.unique])
                       ELSE out)

\* As DedupFrom, but a bundle is kept also when none of its results is kept
RECURSIVE DedupFromKeepsEmpty(_, _, _, _)
DedupFromKeepsEmpty(resps, i, seen, out) ==
    IF i > Len(resps) THEN out
    ELSE LET agent == GetAgent(resps[i])
             r == DedupResults(GetResults(resps[i]), 1, seen, << >>)
         IN  DedupFromKeepsEmpty(resps, i + 1, r.seen,
                       Append(out, [agent |-> agent, results |-> r.unique]))

\* The outer loop of _deduplicate_responses over responses[i..]
RECURSIVE DedupFrom(_, _, _, _)
DedupFrom(resps, i, seen, out) ==
    IF i > Len(resps) THEN out
    ELSE LET agent == GetAgent(resps[i])
             r == DedupResults(GetResults(resps[i]), 1, seen, << >>)
         IN  DedupFrom(resps, i + 1, r.seen,
                       IF r.unique # << >>
                       THEN Append(out, [agent |-> agent, results |-> r.unique])
                       ELSE out)

\* As DeduplicateResponses, but seen_content is kept on the Compiler from one
\* call to the next: it starts as the content keys of the results the earlier
\* call returned
DeduplicateResponsesSeenKept(resps) ==
    LET returned == IF "details" \in DOMAIN compilation_result
                    THEN compilation_result.details ELSE << >>
        seen_content ==
            { CreateContentKey(returned[k].content) :
                k \in { k \in DOMAIN returned : returned[k].source_agent # "Compiler" } }
    IN  DedupFrom(resps, 1, seen_content, << >>)

\* As DeduplicateResponses, but seen_content is shared by the threads: it
\* starts as the content keys the call of the other thread has put in
DeduplicateResponsesSeenShared(resps) ==
    LET seen_content ==
            { CreateContentKey(other.deduplicated[i].results[j]) :
                <<i, j>> \in UNION { { <<b, r>> : r \in DOMAIN other.deduplicated[b].results } :
                                       b \in DOMAIN other.deduplicated } }
    IN  DedupFrom(resps, 1, seen_content, << >>)

\* Compiler._deduplicate_responses
DeduplicateResponses(resps) == DedupFrom(resps, 1, {}, << >>)

---------------------------------------------------------------------------
(* Stage 2: prioritization.  A relevance score is the float overlap / n;   *)
(* it is modelled by the fraction in lowest terms, so that two scores are  *)
(* equal records exactly when the floats are equal.                        *)

RECURSIVE Gcd(_, _)
Gcd(a, b) == IF b = 0 THEN a ELSE Gcd(b, a % b)

\* the float a / b, b > 0
Fraction(a, b) ==
    LET g == Gcd(a, b) IN [num |-> a \div g, den |-> b \div g]

\* the float 0.0 (and the int 0, which compares equal to it)
Zero == [num |-> 0, den |-> 1]

\* the float 1.0
One == [num |-> 1, den |-> 1]

\* a < b for scores
ScoreLess(a, b) == a.num * b.den < b.num * a.den

\* result_text of a dict: " ".join(str(v).lower() for v in res.values())
ValuesText(res) ==
    Join(" ", [i \in 1..Len(res.items) |-> Lower(PyStr(res.items[i].value))])

\* result_words
ResultWords(res) ==
    LET result_text == IF ~IsDict(res) THEN Lower(PyStr(res))
                       ELSE ValuesText(res)
    IN  Range(Split(result_text))

\* The score with every word of the text counted as often as it occurs
CalculateRelevanceScoreByWordList(res, query_keywords) ==
    LET result_text == IF ~IsDict(res) THEN Lower(PyStr(res)) ELSE ValuesText(res)
        words == Split(result_text)
        overlap == Cardinality({ i \in 1..Len(words) : words[i] \in query_keywords })
    IN  IF Cardinality(query_keywords) = 0 THEN Zero
        ELSE Fraction(overlap, Cardinality(query_keywords))

\* Compiler._calculate_relevance_score
CalculateRelevanceScore(res, query_keywords) ==
    LET overlap == Cardinality(query_keywords \cap ResultWords(res))
    IN  IF Cardinality(query_keywords) = 0 THEN Zero
        ELSE Fraction(overlap, Cardinality(query_keywords))

\* As InsertByScore, but an element goes in front of the first element of a
\* score that is not larger: elements of equal score end in reverse order
RECURSIVE InsertByScoreBeforeEqual(_, _)
InsertByScoreBeforeEqual(x, sorted) ==
    IF sorted = << >> THEN << x >>
    ELSE IF ~ ScoreLess(x.score, sorted[1].score) THEN << x >> \o sorted
    ELSE << sorted[1] >> \o InsertByScoreBeforeEqual(x, Tail(sorted))

\* list.sort(key = score, reverse = True): stable, so an element goes in
\* front of the first element of a strictly smaller score
RECURSIVE InsertByScore(_, _)
InsertByScore(x, sorted) ==
    IF sorted = << >> THEN << x >>
    ELSE IF ScoreLess(sorted[1].score, x.score) THEN << x >> \o sorted
    ELSE << sorted[1] >> \o InsertByScore(x, Tail(sorted))

RECURSIVE SortByScoreFrom(_, _, _)
SortByScoreFrom(seq, i, sorted) ==
    IF i > Len(seq) THEN sorted
    ELSE SortByScoreFrom(seq, i + 1, InsertByScore(seq[i], sorted))

SortByScoreDesc(seq) == SortByScoreFrom(seq, 1, << >>)

\* max(scores) if scores else 0
RECURSIVE MaxScore(_)
MaxScore(scores) ==
    IF scores = << >> THEN Zero
    ELSE IF Len(scores) = 1 THEN scores[1]
    ELSE LET m == MaxScore(Tail(scores))
         IN  IF ScoreLess(scores[1], m) THEN m ELSE scores[1]

\* As ScoreResponse, but only the results are sorted: the scores stay in the
\* order of the bundle
ScoreResponseScoresInPlace(response, query_keywords) ==
    LET results == GetResults(response)
        scores == [i \in 1..Len(results) |->
                      CalculateRelevanceScore(results[i], query_keywords)]
        scored_results ==
            SortByScoreDesc([i \in 1..Len(results) |->
                [score |-> scores[i], result |-> results[i]]])
    IN  [agent |-> GetAgent(response),
         results |-> [i \in 1..Len(scored_results) |-> scored_results[i].result],
         relevance_scores |-> scores]

\* The body of the loop of _prioritize_responses: one bundle scored and sorted
ScoreResponse(response, query_keywords) ==
    LET results == GetResults(response)
        scored_results ==
            SortByScoreDesc([i \in 1..Len(results) |->
                [score |-> CalculateRelevanceScore(results[i], query_keywords),
                 result |-> results[i]]])
    IN  [agent |-> GetAgent(response),
         results |-> [i \in 1..Len(scored_results) |-> scored_results[i].result],
         relevance_scores |-> [i \in 1..Len(scored_results) |-> scored_results[i].score]]

\* Compiler._prioritize_responses
PrioritizeResponses(resps, q) ==
    LET query_keywords == Range(Split(Lower(q)))
        scored_responses ==
            [i \in 1..Len(resps) |-> ScoreResponse(resps[i], query_keywords)]
        keyed == [i \in 1..Len(resps) |->
                    [score |-> MaxScore(scored_responses[i].relevance_scores),
                     response |-> scored_responses[i]]]
        sorted == SortByScoreDesc(keyed)
    IN  [i \in 1..Len(sorted) |-> sorted[i].response]

---------------------------------------------------------------------------
(* Stage 3: contradiction detection.  field_values, a defaultdict(list),   *)
(* is the sequence of its entries [field, values] in insertion order.      *)

\* As AppendObservation, but an observation the field already has is not
\* listed a second time
AppendObservationOncePerPair(field_values, key, obs) ==
    IF \E i \in 1..Len(field_values) : field_values[i].field = key
    THEN [i \in 1..Len(field_values) |->
            IF field_values[i].field = key
               /\ \A k \in 1..Len(field_values[i].values) :
                      field_values[i].values[k] # obs
            THEN [field |-> key, values |-> Append(field_values[i].values, obs)]
            ELSE field_values[i]]
    ELSE Append(field_values, [field |-> key, values |-> << obs >>])

\* field_values[key].append(obs)
AppendObservation(field_values, key, obs) ==
    IF \E i \in 1..Len(field_values) : field_values[i].field = key
    THEN [i \in 1..Len(field_values) |->
            IF field_values[i].field = key
            THEN [field |-> key, values |-> Append(field_values[i].values, obs)]
            ELSE field_values[i]]
    ELSE Append(field_values, [field |-> key, values |-> << obs >>])

\* for key, value in result.items(): ... from item i on
RECURSIVE ObserveItems(_, _, _, _)
ObserveItems(items, i, agent, field_values) ==
    IF i > Len(items) THEN field_values
    ELSE ObserveItems(items, i + 1, agent,
            AppendObservation(field_values, items[i].key,
                              [agent |-> agent, value |-> items[i].value]))

\* for result in results: if isinstance(result, dict): ... from result i on
RECURSIVE ObserveResults(_, _, _, _)
ObserveResults(results, i, agent, field_values) ==
    IF i > Len(results) THEN field_values
    ELSE ObserveResults(results, i + 1, agent,
            IF IsDict(results[i])
            THEN ObserveItems(results[i].items, 1, agent, field_values)
            ELSE field_values)

\* for response in responses: ... from response i on
RECURSIVE ObserveResponses(_, _, _)
ObserveResponses(resps, i, field_values) ==
    IF i > Len(resps) THEN field_values
    ELSE ObserveResponses(resps, i + 1,
            ObserveResults(GetResults(resps[i]), 1, GetAgent(resps[i]), field_values))

\* The distinct values with letter case left out of account
UniqueValuesIgnoringCase(values) ==
    {Lower(PyStr(values[i].value)) : i \in 1..Len(values)}

\* set(str(v["value"]) for v in values)
UniqueValues(values) == {PyStr(values[i].value) : i \in 1..Len(values)}

\* The test with three observations asked for
IsContradictoryOverTwo(values) ==
    Len(values) > 2 /\ Cardinality(UniqueValues(values)) > 1

\* The test of the second loop of _detect_contradictions
IsContradictory(values) ==
    Len(values) > 1 /\ Cardinality(UniqueValues(values)) > 1

\* The second loop of _detect_contradictions, from field i on
RECURSIVE CheckFields(_, _, _)
CheckFields(field_values, i, contras) ==
    IF i > Len(field_values) THEN contras
    ELSE CheckFields(field_values, i + 1,
            IF IsContradictory(field_values[i].values)
            THEN Append(contras, [field |-> field_values[i].field,
                                  conflicting_values |-> field_values[i].values,
                                  severity |-> "medium"])
            ELSE contras)

\* Compiler._detect_contradictions
DetectContradictions(resps) ==
    CheckFields(ObserveResponses(resps, 1, << >>), 1, << >>)

\* Detection whatever the switch
ContradictionStepAlways(enabled, resps) == DetectContradictions(resps)

\* compile, step 3: detection, or the empty list when it is switched off
ContradictionStep(enabled, resps) ==
    IF enabled THEN DetectContradictions(resps) ELSE << >>

---------------------------------------------------------------------------
(* Stage 4: the summary *)

Bullet == "*"

WarningSign == "!~"

ImportantFields == << "description", "summary", "title", "status", "value", "result" >>

\* The loop of _format_result_summary over important_fields[i..]
RECURSIVE FirstImportant(_, _)
FirstImportant(res, i) ==
    IF i > Len(ImportantFields) THEN
        IF res.items # << >>
        THEN res.items[1].key \o ": " \o PyStr(res.items[1].value)
        ELSE "No details available"
    ELSE IF HasKey(res, ImportantFields[i])
         THEN PyStr(Lookup(res, ImportantFields[i]))
         ELSE FirstImportant(res, i + 1)

\* As FormatResultSummary, but the fields of the mapping are tried in the
\* mapping's own order: the first of them that is an important field wins
RECURSIVE FirstImportantInMapping(_, _)
FirstImportantInMapping(res, i) ==
    IF i > Len(res.items) THEN
        IF res.items # << >>
        THEN res.items[1].key \o ": " \o PyStr(res.items[1].value)
        ELSE "No details available"
    ELSE IF res.items[i].key \in Range(ImportantFields)
         THEN PyStr(res.items[i].value)
         ELSE FirstImportantInMapping(res, i + 1)

FormatResultSummaryInMappingOrder(res) == FirstImportantInMapping(res, 1)

\* Compiler._format_result_summary
FormatResultSummary(res) == FirstImportant(res, 1)

\* As Findings, but over all the bundles: responses instead of responses[:3]
RECURSIVE FindingsOfAll(_, _, _)
FindingsOfAll(resps, i, limit) ==
    IF i > Len(resps) THEN << >>
    ELSE LET results == GetResults(resps[i])
         IN  (IF results # << >> /\ IsDict(results[1])
              THEN << Bullet \o " " \o GetAgent(resps[i]) \o ": "
                      \o FormatResultSummary(results[1]) >>
              ELSE << >>)
             \o FindingsOfAll(resps, i + 1, limit)

\* The key-findings loop of _generate_summary over responses[i..limit]
RECURSIVE Findings(_, _, _)
Findings(resps, i, limit) ==
    IF i > limit THEN << >>
    ELSE LET results == GetResults(resps[i])
         IN  (IF results # << >> /\ IsDict(results[1])
              THEN << Bullet \o " " \o GetAgent(resps[i]) \o ": "
                      \o FormatResultSummary(results[1]) >>
              ELSE << >>)
             \o Findings(resps, i + 1, limit)

\* The warning appended to summary_parts when there are contradictions
ContradictionWarning(contras) ==
    "\n" \o WarningSign \o " Note: " \o IntToStr(Len(contras))
    \o " potential contradiction(s) detected. "
    \o "Please review the detailed results."

\* The summary with the introduction ended straight after the names
AssembleSummaryNoSystems(resps, contras) ==
    LET agent_names == [i \in 1..Len(resps) |-> GetAgent(resps[i])]
        intro == "Based on information from " \o Join(", ", agent_names) \o ":"
        top == IF Len(resps) < 3 THEN Len(resps) ELSE 3
    IN  Join("\n", << intro >> \o Findings(resps, 1, top)
                   \o (IF contras # << >> THEN << ContradictionWarning(contras) >>
                       ELSE << >>))

\* summary_parts of _generate_summary, joined: the summary before truncation
AssembleSummary(resps, contras) ==
    LET agent_names == [i \in 1..Len(resps) |-> GetAgent(resps[i])]
        intro == "Based on information from " \o Join(", ", agent_names) \o " systems:"
        top == IF Len(resps) < 3 THEN Len(resps) ELSE 3
    IN  Join("\n", << intro >> \o Findings(resps, 1, top)
                   \o (IF contras # << >> THEN << ContradictionWarning(contras) >>
                       ELSE << >>))

\* The truncation that ends _generate_summary
Truncate(text, maxlen) ==
    IF Len(text) > maxlen THEN SliceTo(text, maxlen - 3) \o "..." ELSE text

\* Compiler._generate_summary (the query is not used)
GenerateSummary(resps, q, contras, maxlen) ==
    Truncate(AssembleSummary(resps, contras), maxlen)

---------------------------------------------------------------------------
(* Stage 5: citations *)

\* Citations with each source name cited once only
RECURSIVE CitationsOncePerAgent(_, _)
CitationsOncePerAgent(resps, i) ==
    IF i > Len(resps) THEN << >>
    ELSE LET results == GetResults(resps[i])
         IN  (IF results # << >>
                 /\ ~ \E j \in 1..(i - 1) : GetAgent(resps[j]) = GetAgent(resps[i])
              THEN << GetAgent(resps[i]) \o " Agent (" \o IntToStr(Len(results))
                      \o " result(s))" >>
              ELSE << >>)
             \o CitationsOncePerAgent(resps, i + 1)

RECURSIVE CitationsFrom(_, _)
CitationsFrom(resps, i) ==
    IF i > Len(resps) THEN << >>
    ELSE LET results == GetResults(resps[i])
         IN  (IF results # << >>
              THEN << GetAgent(resps[i]) \o " Agent (" \o IntToStr(Len(results))
                      \o " result(s))" >>
              ELSE << >>)
             \o CitationsFrom(resps, i + 1)

\* One citation for every result of every bundle
RECURSIVE CitationsPerResult(_)
CitationsPerResult(resps) ==
    IF resps = << >> THEN << >>
    ELSE [j \in 1..Len(GetResults(resps[1])) |->
             GetAgent(resps[1]) \o " Agent (" \o IntToStr(Len(GetResults(resps[1])))
             \o " result(s))"]
         \o CitationsPerResult(Tail(resps))

\* Compiler._extract_citations
ExtractCitations(resps) == CitationsFrom(resps, 1)

---------------------------------------------------------------------------
(* Stage 6: details *)

\* The entries of one bundle
BundleDetails(response) ==
    LET results == GetResults(response)
        relevance_scores == GetScores(response)
    IN  [idx \in 1..Len(results) |->
            [source_agent |-> GetAgent(response),
             content |-> results[idx],
             relevance_score |-> IF idx <= Len(relevance_scores)
                                 THEN relevance_scores[idx] ELSE Zero]]

RECURSIVE DetailsFrom(_, _)
DetailsFrom(resps, i) ==
    IF i > Len(resps) THEN << >>
    ELSE BundleDetails(resps[i]) \o DetailsFrom(resps, i + 1)

\* The entry that carries the contradictions
ContradictionEntry(contras) ==
    [source_agent |-> "Compiler",
     content |-> DictV(<< Item("type", StrV("contradictions")),
                          Item("items", ListV(contras)) >>),
     relevance_score |-> One]

\* The details with the Compiler's entry appended whether or not there is a
\* contradiction
PrepareDetailsEntryAlways(resps, contras) ==
    DetailsFrom(resps, 1) \o << ContradictionEntry(contras) >>

\* Compiler._prepare_details
PrepareDetails(resps, contras) ==
    DetailsFrom(resps, 1)
    \o (IF contras # << >> THEN << ContradictionEntry(contras) >> ELSE << >>)

---------------------------------------------------------------------------
(* The metadata of the CompilationResult *)

\* sum(len(r.get("results", [])) for r in responses)
RECURSIVE TotalResults(_)
TotalResults(resps) ==
    IF resps = << >> THEN 0
    ELSE Len(GetResults(resps[1])) + TotalResults(Tail(resps))

\* The metadata with the results counted after deduplication
MetadataAfterDedup(q, resps, contras) ==
    [query |-> q,
     agents_consulted |-> Len(resps),
     total_results |-> TotalResults(DeduplicateResponses(resps)),
     contradictions_found |-> Len(contras)]

\* The metadata of compile's CompilationResult
Metadata(q, resps, contras) ==
    [query |-> q,
     agents_consulted |-> Len(resps),
     total_results |-> TotalResults(resps),
     contradictions_found |-> Len(contras)]

---------------------------------------------------------------------------
(* Construction *)

DefaultMaxSummaryLength == 500

\* self.config.get("max_summary_length", 500)
ConfigMaxSummaryLength(config) ==
    IF "max_summary_length" \in DOMAIN config THEN config.max_summary_length
    ELSE DefaultMaxSummaryLength

\* self.config.get("enable_contradiction_detection", True)
ConfigEnableDetection(config) ==
    IF "enable_contradiction_detection" \in DOMAIN config
    THEN config.enable_contradiction_detection
    ELSE TRUE

---------------------------------------------------------------------------
(* The inputs the model draws from *)

\* Configurations: one with no recognized option (the defaults), and the
\* budgets 2, 20 and 60 with detection on and off.
ConfigPool ==
    { [verbose |-> TRUE],
      [verbose |-> TRUE, enable_contradiction_detection |-> FALSE],
      [verbose |-> TRUE, max_summary_length |-> 2],
      [verbose |-> TRUE, max_summary_length |-> 20],
      [verbose |-> TRUE, max_summary_length |-> 20,
       enable_contradiction_detection |-> FALSE],
      [verbose |-> TRUE, max_summary_length |-> 60],
      [verbose |-> TRUE, max_summary_length |-> 60,
       enable_contradiction_detection |-> FALSE] }

\* Queries: no keyword; one keyword; two keywords around a double space
QueryPool == { "", "FAIL", "Pass  ASSAY" }

R_pass == DictV(<< Item("status", StrV("PASS")) >>)

R_fail == DictV(<< Item("status", StrV("FAIL")) >>)

R_id1 == DictV(<< Item("id", IntV(1)), Item("status", StrV("PASS")) >>)

R_id2 == DictV(<< Item("id", IntV(2)), Item("status", StrV("PASS")) >>)

R_text == StrV("status:PASS")

R_empty == DictV(<< >>)

R_title == DictV(<< Item("title", StrV("Pass pass")), Item("status", StrV("pass")) >>)

R_lotA == DictV(<< Item("lot", StrV("A")), Item("value", IntV(1)) >>)

R_lotB == DictV(<< Item("lot", StrV("B")), Item("value", StrV("1")) >>)

R_assay == DictV(<< Item("test", StrV("Assay")), Item("status", StrV("PASS")) >>)

R_assay2 == DictV(<< Item("status", StrV("PASS")), Item("test", StrV("Assay")) >>)

\* Response bundles
BundlePool ==
    { [agent |-> "LIMS", results |-> << R_id1 >>],
      [agent |-> "ERP",  results |-> << R_id2 >>],
      [agent |-> "ERP",  results |-> << R_fail >>],
      [agent |-> "DMS",  results |-> << >>],
      [agent |-> "DMS",  results |-> << R_text, R_empty >>],
      [agent |-> "DMS",  results |-> << R_title >>],
      [agent |-> "LIMS", results |-> << R_lotA, R_lotB >>],
      [agent |-> "ERP",  results |-> << R_pass, R_assay, R_assay2 >>] }

\* The longest list of bundles of a call
MaxBundles == 2

ResponsePool == UNION { [1..n -> BundlePool] : n \in 0..MaxBundles }

---------------------------------------------------------------------------
(* The state machine: Compiler(config), then one call of compile *)

\* The value of a local of compile that is not assigned yet
None == << >>

\* The frame of a call of compile that has not started
IdleFrame ==
    [pc |-> "idle", query |-> "", responses |-> << >>, deduplicated |-> None,
     prioritized |-> None, contradictions |-> None, summary |-> "",
     citations |-> None, details |-> None, compilation_result |-> None]

Init ==
    /\ \E config \in ConfigPool :
          /\ max_summary_length = ConfigMaxSummaryLength(config)
          /\ enable_contradiction_detection = ConfigEnableDetection(config)
    /\ query = ""
    /\ responses = << >>
    /\ pc = "idle"
    /\ deduplicated = None
    /\ prioritized = None
    /\ contradictions = None
    /\ summary = ""
    /\ citations = None
    /\ details = None
    /\ compilation_result = None
    /\ other = IdleFrame

\* compile(q, resps) is called
Call ==
    /\ pc = "idle"
    /\ \E q \in QueryPool, resps \in ResponsePool :
          /\ query' = q
          /\ responses' = resps
    /\ pc' = "deduplicate"
    /\ UNCHANGED << other, max_summary_length, enable_contradiction_detection,
                    deduplicated, prioritized, contradictions, summary,
                    citations, details, compilation_result >>

\* As Deduplicate, but the caller's list is cut down in place
DeduplicateInPlace ==
    /\ pc = "deduplicate"
    /\ deduplicated' = DeduplicateResponses(responses)
    /\ responses' = deduplicated'
    /\ pc' = "prioritize"
    /\ UNCHANGED << other, max_summary_length, enable_contradiction_detection, query,
                    prioritized, contradictions, summary, citations,
                    details, compilation_result >>

\* Step 1
Deduplicate ==
    /\ pc = "deduplicate"
    /\ deduplicated' = DeduplicateResponses(responses)
    /\ pc' = "prioritize"
    /\ UNCHANGED << other, max_summary_length, enable_contradiction_detection, query,
                    responses, prioritized, contradictions, summary, citations,
                    details, compilation_result >>

\* Step 2
Prioritize ==
    /\ pc = "prioritize"
    /\ prioritized' = PrioritizeResponses(deduplicated, query)
    /\ pc' = "detect"
    /\ UNCHANGED << other, max_summary_length, enable_contradiction_detection, query,
                    responses, deduplicated, contradictions, summary, citations,
                    details, compilation_result >>

\* Step 3
Detect ==
    /\ pc = "detect"
    /\ contradictions' = ContradictionStep(enable_contradiction_detection, prioritized)
    /\ pc' = "summarize"
    /\ UNCHANGED << other, max_summary_length, enable_contradiction_detection, query,
                    responses, deduplicated, prioritized, summary, citations,
                    details, compilation_result >>

\* Step 4
Summarize ==
    /\ pc = "summarize"
    /\ summary' = GenerateSummary(prioritized, query, contradictions, max_summary_length)
    /\ pc' = "cite"
    /\ UNCHANGED << other, max_summary_length, enable_contradiction_detection, query,
                    responses, deduplicated, prioritized, contradictions,
                    citations, details, compilation_result >>

\* Step 5 run on the list the caller passed instead of the prioritized one
CiteFromInput ==
    /\ pc = "cite"
    /\ citations' = ExtractCitations(responses)
    /\ pc' = "detail"
    /\ UNCHANGED << other, max_summary_length, enable_contradiction_detection, query,
                    responses, deduplicated, prioritized, contradictions,
                    summary, details, compilation_result >>

\* Step 5
Cite ==
    /\ pc = "cite"
    /\ citations' = ExtractCitations(prioritized)
    /\ pc' = "detail"
    /\ UNCHANGED << other, max_summary_length, enable_contradiction_detection, query,
                    responses, deduplicated, prioritized, contradictions,
                    summary, details, compilation_result >>

\* Step 6
Detail ==
    /\ pc = "detail"
    /\ details' = PrepareDetails(prioritized, contradictions)
    /\ pc' = "return"
    /\ UNCHANGED << other, max_summary_length, enable_contradiction_detection, query,
                    responses, deduplicated, prioritized, contradictions,
                    summary, citations, compilation_result >>

\* The CompilationResult is built and returned
Return ==
    /\ pc = "return"
    /\ compilation_result' =
          [summary |-> summary,
           details |-> details,
           citations |-> citations,
           metadata |-> Metadata(query, responses, contradictions)]
    /\ pc' = "done"
    /\ UNCHANGED << other, max_summary_length, enable_contradiction_detection, query,
                    responses, deduplicated, prioritized, contradictions,
                    summary, citations, details >>

Next ==
    \/ Call
    \/ Deduplicate
    \/ Prioritize
    \/ Detect
    \/ Summarize
    \/ Cite
    \/ Detail
    \/ Return

Spec == Init /\ [][Next]_vars

Done == pc = "done"

\* compile as a function of the Compiler's two fields and its arguments: the
\* six stages in order, deduplication starting from an empty seen_content
CompileFresh(maxlen, enabled, q, resps) ==
    LET dedup == DedupFrom(resps, 1, {}, << >>)
        prio == PrioritizeResponses(dedup, q)
        contras == ContradictionStep(enabled, prio)
    IN  [deduplicated |-> dedup,
         prioritized |-> prio,
         contradictions |-> contras,
         summary |-> GenerateSummary(prio, q, contras, maxlen),
         citations |-> ExtractCitations(prio),
         details |-> PrepareDetails(prio, contras),
         compilation_result |->
             [summary |-> GenerateSummary(prio, q, contras, maxlen),
              details |-> PrepareDetails(prio, contras),
              citations |-> ExtractCitations(prio),
              metadata |-> Metadata(q, resps, contras)]]

---------------------------------------------------------------------------
(* Calls of compile one after another on one Compiler *)

\* Bundles without the key "agent", without the key "results", without both
NoAgentBundle == [results |-> << R_fail >>]

NoResultsBundle == [agent |-> "ERP"]

NoKeysBundle == [note |-> "n"]

\* Arguments of compile: degenerate ones (no bundle, no keyword, bundles
\* without results), bundles that lack a key, and ordinary ones that share
\* content with each other.
ArgumentPool ==
    { [query |-> "",     responses |-> << >>],
      [query |-> "  ",   responses |-> << >>],
      [query |-> "",     responses |-> << [agent |-> "DMS", results |-> << >>] >>],
      [query |-> "  ",   responses |-> << [agent |-> "DMS", results |-> << >>],
                                          [agent |-> "DMS", results |-> << >>] >>],
      [query |-> " \n",  responses |-> << [agent |-> "DMS", results |-> << >>],
                                          [agent |-> "LIMS", results |-> << R_id1 >>] >>],
      [query |-> "",     responses |-> << [agent |-> "LIMS", results |-> << R_id1 >>],
                                          [agent |-> "ERP",  results |-> << R_id2 >>] >>],
      [query |-> "FAIL", responses |-> << [agent |-> "ERP",  results |-> << R_pass, R_fail >>],
                                          [agent |-> "LIMS", results |-> << R_id1 >>] >>],
      [query |-> "FAIL", responses |-> << [agent |-> "ERP",  results |-> << R_fail >>] >>],
      [query |-> "FAIL", responses |-> << NoAgentBundle, NoKeysBundle >>],
      [query |-> "",     responses |-> << NoResultsBundle,
                                          [agent |-> "LIMS", results |-> << R_id1 >>] >>] }

\* compile(q, resps) starts in a new frame: its locals are not assigned
Enter(q, resps) ==
    /\ query' = q
    /\ responses' = resps
    /\ pc' = "deduplicate"
    /\ deduplicated' = None
    /\ prioritized' = None
    /\ contradictions' = None
    /\ summary' = ""
    /\ citations' = None
    /\ details' = None
    /\ UNCHANGED << other, max_summary_length, enable_contradiction_detection,
                    compilation_result >>

\* compile is called on the Compiler, the first time or after a call returned;
\* the caller holds the earlier CompilationResult until the new one is returned
CallAgain ==
    /\ pc \in { "idle", "done" }
    /\ \E a \in ArgumentPool : Enter(a.query, a.responses)

NextCalls ==
    \/ CallAgain
    \/ Deduplicate
    \/ Prioritize
    \/ Detect
    \/ Summarize
    \/ Cite
    \/ Detail
    \/ Return

SpecCalls == Init /\ [][NextCalls]_vars

---------------------------------------------------------------------------
(* Two threads that call compile on one Compiler.  The variables query ..  *)
(* compilation_result are the frame of the thread that runs, other is the  *)
(* frame of the thread that waits; the Compiler's two fields are shared.   *)

\* The frame of the thread that runs
Frame ==
    [pc |-> pc, query |-> query, responses |-> responses,
     deduplicated |-> deduplicated, prioritized |-> prioritized,
     contradictions |-> contradictions, summary |-> summary,
     citations |-> citations, details |-> details,
     compilation_result |-> compilation_result]

\* The interpreter switches threads between two steps of compile
Switch ==
    /\ other' = Frame
    /\ pc' = other.pc
    /\ query' = other.query
    /\ responses' = other.responses
    /\ deduplicated' = other.deduplicated
    /\ prioritized' = other.prioritized
    /\ contradictions' = other.contradictions
    /\ summary' = other.summary
    /\ citations' = other.citations
    /\ details' = other.details
    /\ compilation_result' = other.compilation_result
    /\ UNCHANGED << max_summary_length, enable_contradiction_detection >>

\* The thread that runs calls compile
CallInThread ==
    /\ pc = "idle"
    /\ \E a \in ArgumentPool : Enter(a.query, a.responses)

NextThreads ==
    \/ CallInThread
    \/ Switch
    \/ Deduplicate
    \/ Prioritize
    \/ Detect
    \/ Summarize
    \/ Cite
    \/ Detail
    \/ Return

SpecThreads == Init /\ [][NextThreads]_vars

---------------------------------------------------------------------------
(* One call of compile with up to four bundles *)

WideQueryPool == { "", "FAIL" }

WideBundlePool ==
    { [agent |-> "LIMS", results |-> << R_id1 >>],
      [agent |-> "DMS",  results |-> << R_text, R_empty >>],
      [agent |-> "ERP",  results |-> << R_fail >>],
      [agent |-> "DMS",  results |-> << R_title >>],
      [agent |-> "LIMS", results |-> << R_lotA, R_lotB >>] }

\* The longest list of bundles of a call of this kind
MaxWideBundles == 4

\* The lists of different bundles
WideResponsePool ==
    { resps \in UNION { [1..n -> WideBundlePool] : n \in 0..MaxWideBundles } :
         \A i, j \in DOMAIN resps : i # j => resps[i] # resps[j] }

CallWide ==
    /\ pc = "idle"
    /\ \E q \in WideQueryPool, resps \in WideResponsePool : Enter(q, resps)

NextWide ==
    \/ CallWide
    \/ Deduplicate
    \/ Prioritize
    \/ Detect
    \/ Summarize
    \/ Cite
    \/ Detail
    \/ Return

SpecWide == Init /\ [][NextWide]_vars

---------------------------------------------------------------------------
(* One call of compile with one bundle of one mapping, the mapping having  *)
(* any few of the fields below in any order                                *)

FieldNames ==
    { "description", "summary", "title", "status", "value", "result",
      "lot", "batch" }

\* The value a field has in these mappings
FieldValue(name) ==
    CASE name = "description" -> StrV("Assay of lot A")
      [] name = "summary"     -> StrV("in spec")
      [] name = "title"       -> StrV("CoA")
      [] name = "status"      -> StrV("PASS")
      [] name = "value"       -> IntV(98)
      [] name = "result"      -> IntV(0)
      [] name = "lot"         -> StrV("A")
      [] name = "batch"       -> IntV(12)

\* The most fields of a mapping
MaxFields == 2

\* The mappings: the sequences of different field names, with their values
FieldResultPool ==
    { DictV([i \in DOMAIN names |-> Item(names[i], FieldValue(names[i]))]) :
        names \in { ns \in UNION { [1..n -> FieldNames] : n \in 0..MaxFields } :
                       \A i, j \in DOMAIN ns : i # j => ns[i] # ns[j] } }

CallFields ==
    /\ pc = "idle"
    /\ \E res \in FieldResultPool :
           Enter("", << [agent |-> "LIMS", results |-> << res >>] >>)

NextFields ==
    \/ CallFields
    \/ Deduplicate
    \/ Prioritize
    \/ Detect
    \/ Summarize
    \/ Cite
    \/ Detail
    \/ Return

SpecFields == Init /\ [][NextFields]_vars

---------------------------------------------------------------------------
(* What the claims speak of *)

\* The positions <<bundle, result>> of the results of the input
InputPositions ==
    UNION { { << i, j >> : j \in 1..Len(GetResults(responses[i])) } :
            i \in 1..Len(responses) }

InputResult(p) == GetResults(responses[p[1]])[p[2]]

\* p comes before q in the input
Before(p, q) == p[1] < q[1] \/ (p[1] = q[1] /\ p[2] < q[2])

\* No earlier result of the input has the content key of the result at p
FirstOccurrence(p) ==
    ~ \E q \in InputPositions :
        Before(q, p) /\ CreateContentKey(InputResult(q)) = CreateContentKey(InputResult(p))

\* The results of input bundle i that are first occurrences, from result j on
RECURSIVE KeptFrom(_, _)
KeptFrom(i, j) ==
    IF j > Len(GetResults(responses[i])) THEN << >>
    ELSE (IF FirstOccurrence(<< i, j >>) THEN << GetResults(responses[i])[j] >> ELSE << >>)
         \o KeptFrom(i, j + 1)

KeptOf(i) == KeptFrom(i, 1)

\* The input bundles cut down to their first occurrences, the empty ones dropped
RECURSIVE ExpectedFrom(_)
ExpectedFrom(i) ==
    IF i > Len(responses) THEN << >>
    ELSE (IF KeptOf(i) # << >>
          THEN << [agent |-> GetAgent(responses[i]), results |-> KeptOf(i)] >>
          ELSE << >>)
         \o ExpectedFrom(i + 1)

\* The entry of details that carries the contradictions
IsContradictionEntry(e) ==
    /\ e.source_agent = "Compiler"
    /\ IsDict(e.content)
    /\ HasKey(e.content, "type")
    /\ Lookup(e.content, "type") = StrV("contradictions")

\* The indices of the entries of the returned details that carry a result
ResultEntries ==
    { k \in 1..Len(compilation_result.details) :
        ~ IsContradictionEntry(compilation_result.details[k]) }

\* sub occurs in text
Contains(text, sub) ==
    \E i \in 1..(Len(text) - Len(sub) + 1) : SubSeq(text, i, i + Len(sub) - 1) = sub

\* text starts with prefix
StartsWith(text, prefix) ==
    Len(prefix) <= Len(text) /\ SubSeq(text, 1, Len(prefix)) = prefix

\* The fields of a mapping that deduplication compares, as <<name, value>> pairs
NonReserved(res) ==
    { << res.items[i].key, res.items[i].value >> :
        i \in { n \in 1..Len(res.items) : res.items[n].key \notin ReservedFields } }

\* The reserved fields of a mapping
Reserved(res) ==
    { << res.items[i].key, res.items[i].value >> :
        i \in { n \in 1..Len(res.items) : res.items[n].key \in ReservedFields } }

\* Two mappings with the same non-reserved fields and values that differ in
\* a reserved field
DifferOnlyInReserved(r1, r2) ==
    /\ IsDict(r1) /\ IsDict(r2)
    /\ NonReserved(r1) = NonReserved(r2)
    /\ Reserved(r1) # Reserved(r2)

\* Two bundles with the same result content, result by result
SameContent(b1, b2) ==
    /\ Len(GetResults(b1)) = Len(GetResults(b2))
    /\ \A j \in 1..Len(GetResults(b1)) :
          CreateContentKey(GetResults(b1)[j]) = CreateContentKey(GetResults(b2)[j])

\* The keywords of a query
QueryKeywords(q) == Range(Split(Lower(q)))

\* A score within [0.0, 1.0]
InUnitInterval(score) ==
    score.den > 0 /\ 0 <= score.num /\ score.num <= score.den

\* The citation of a source with n results
CitationOf(agent, n) == agent \o " Agent (" \o IntToStr(n) \o " result(s))"

\* The first code point of the warning sign
WarningMark == SubSeq(WarningSign, 1, 1)

\* The <<source, value>> observations of field f in a bundle
FieldObservations(bundle, f) ==
    { << GetAgent(bundle), Lookup(GetResults(bundle)[n], f) >> :
        n \in { m \in 1..Len(GetResults(bundle)) :
                  IsDict(GetResults(bundle)[m]) /\ HasKey(GetResults(bundle)[m], f) } }

\* The field names of the mappings of a bundle
FieldsOf(bundle) ==
    UNION { Range(Keys(GetResults(bundle)[n])) :
              n \in { m \in 1..Len(GetResults(bundle)) : IsDict(GetResults(bundle)[m]) } }

\* The <<field, observation of b1, observation of b2>> with different
\* stringified values
Conflicts(b1, b2) ==
    { c \in UNION { { << f, o1, o2 >> : o1 \in FieldObservations(b1, f),
                                        o2 \in FieldObservations(b2, f) } :
                    f \in FieldsOf(b1) \cap FieldsOf(b2) } :
        PyStr(c[2][2]) # PyStr(c[3][2]) }

\* Each conflict of b1 and b2 has its one record, which lists both observations
ConflictsRecorded(b1, b2) ==
    \A c \in Conflicts(b1, b2) :
        LET records == { n \in 1..Len(contradictions) : contradictions[n].field = c[1] }
        IN  /\ Cardinality(records) = 1
            /\ \A n \in records :
                  /\ \E m \in 1..Len(contradictions[n].conflicting_values) :
                        contradictions[n].conflicting_values[m]
                        = [agent |-> c[2][1], value |-> c[2][2]]
                  /\ \E m \in 1..Len(contradictions[n].conflicting_values) :
                        contradictions[n].conflicting_values[m]
                        = [agent |-> c[3][1], value |-> c[3][2]]

\* The field names of the mappings of a list of bundles
ObservedFields(resps) == UNION { FieldsOf(resps[i]) : i \in 1..Len(resps) }

\* The stringified values a list of bundles reports for field f
ObservedValues(resps, f) ==
    UNION { { PyStr(o[2]) : o \in FieldObservations(resps[i], f) } :
              i \in 1..Len(resps) }

\* What the summary of an empty list of bundles is assembled as
EmptyInputSummary == "Based on information from  systems:"

\* Step 1 has run
Deduplicated == pc \notin {"idle", "deduplicate"}

\* Step 2 has run
Prioritized == pc \notin {"idle", "deduplicate", "prioritize"}

---------------------------------------------------------------------------
(* C1.  The summary compile returns is never longer than                   *)
(* max_summary_length, whatever the query, the bundles and the configured  *)
(* max_summary_length.                                                     *)
C1_SummaryLengthCap ==
    Done => Len(compilation_result.summary) <= max_summary_length

(* C2.  Deduplication keeps a result exactly when no earlier result of the *)
(* input (same bundle or an earlier one) has its content key: the          *)
(* deduplicated bundles are the input bundles cut down to their first      *)
(* occurrences, under their own source names, the emptied ones left out;   *)
(* the retained results are no more than the input results; and details    *)
(* holds one entry per content key, attributed to the first bundle that    *)
(* reported it.                                                            *)
C2_FirstOccurrenceKept ==
    /\ Deduplicated =>
          /\ deduplicated = ExpectedFrom(1)
          /\ TotalResults(deduplicated) <= TotalResults(responses)
    /\ Done =>
          \A p \in InputPositions :
              FirstOccurrence(p) =>
                  LET same == { k \in ResultEntries :
                                  CreateContentKey(compilation_result.details[k].content)
                                  = CreateContentKey(InputResult(p)) }
                  IN  /\ Cardinality(same) = 1
                      /\ \A k \in same :
                            compilation_result.details[k].source_agent
                            = GetAgent(responses[p[1]])

\* A result of the second bundle was dropped as the duplicate of one of the first
C2_Witness ==
    /\ Done
    /\ deduplicated # << >>
    /\ \E p, q \in InputPositions :
          /\ p[1] < q[1]
          /\ GetAgent(responses[p[1]]) # GetAgent(responses[q[1]])
          /\ CreateContentKey(InputResult(p)) = CreateContentKey(InputResult(q))

(* C3.  timestamp, id and metadata take no part in deduplication: of two   *)
(* mapping results of the input that have the same other fields with the   *)
(* same values and differ in a reserved field, the earlier one being the   *)
(* first result of the input with its content, details holds exactly one   *)
(* entry with that content: the earlier result, with its own reserved      *)
(* fields, under its own source name; the later one is not in details.     *)
C3_ReservedFieldsIgnored ==
    Done =>
        \A p, q \in InputPositions :
            (Before(p, q) /\ FirstOccurrence(p)
                /\ DifferOnlyInReserved(InputResult(p), InputResult(q)))
            => LET same == { k \in ResultEntries :
                               IsDict(compilation_result.details[k].content)
                               /\ NonReserved(compilation_result.details[k].content)
                                  = NonReserved(InputResult(p)) }
               IN  /\ Cardinality(same) = 1
                   /\ \A k \in same :
                         /\ compilation_result.details[k].content = InputResult(p)
                         /\ compilation_result.details[k].source_agent
                            = GetAgent(responses[p[1]])
                   /\ \A k \in ResultEntries :
                         compilation_result.details[k].content # InputResult(q)

\* Two bundles report the same fields under different ids
C3_Witness ==
    /\ Done
    /\ \E p, q \in InputPositions :
          /\ p[1] < q[1]
          /\ FirstOccurrence(p)
          /\ DifferOnlyInReserved(InputResult(p), InputResult(q))

(* C4.  Doubling: when the input is a bundle B followed by a bundle with   *)
(* the same result content (same or different source name), details holds  *)
(* the result entries, and citations the citations, that compiling B alone *)
(* gives: the second bundle adds no detail entry and no citation.          *)
C4_DoublingIdempotent ==
    (Done /\ Len(responses) = 2 /\ SameContent(responses[1], responses[2]))
    => LET alone == PrioritizeResponses(DeduplicateResponses(<< responses[1] >>), query)
       IN  /\ Cardinality(ResultEntries) = Len(DetailsFrom(alone, 1))
           /\ \A k \in ResultEntries :
                 compilation_result.details[k] = DetailsFrom(alone, 1)[k]
           /\ compilation_result.citations = ExtractCitations(alone)

\* A non-empty bundle is followed by its content under another source name
C4_Witness ==
    /\ Done
    /\ Len(responses) = 2
    /\ SameContent(responses[1], responses[2])
    /\ GetResults(responses[1]) # << >>
    /\ GetAgent(responses[1]) # GetAgent(responses[2])

(* C5.  Every relevance score lies in [0.0, 1.0]: the scores computed in   *)
(* step 2 and every relevance_score of details; and when the query has no  *)
(* keyword every result's score is 0.0.                                    *)
C5_ScoreBounds ==
    /\ Prioritized =>
          \A i \in 1..Len(prioritized) :
              \A j \in 1..Len(prioritized[i].relevance_scores) :
                  /\ InUnitInterval(prioritized[i].relevance_scores[j])
                  /\ QueryKeywords(query) = {}
                        => prioritized[i].relevance_scores[j] = Zero
    /\ Done =>
          \A k \in 1..Len(compilation_result.details) :
              /\ InUnitInterval(compilation_result.details[k].relevance_score)
              /\ (QueryKeywords(query) = {} /\ k \in ResultEntries)
                    => compilation_result.details[k].relevance_score = Zero

\* A result matched some but not all of the keywords of the query
C5_Witness ==
    /\ Done
    /\ \E k \in ResultEntries :
          /\ compilation_result.details[k].relevance_score # Zero
          /\ compilation_result.details[k].relevance_score # One

(* C6.  compile returns one citation for each input bundle that keeps a    *)
(* result after deduplication and no other; the citation of such a bundle  *)
(* is "<source name> Agent (<N> result(s))" with N the number of results   *)
(* it keeps; the citations are in the order of the prioritized bundles.    *)
C6_Citations ==
    Done =>
        LET keeping == { i \in 1..Len(responses) : KeptOf(i) # << >> }
            cited == compilation_result.citations
        IN  /\ Len(cited) = Cardinality(keeping)
            /\ \A i \in keeping :
                  Cardinality({ k \in 1..Len(cited) :
                                  cited[k] = CitationOf(GetAgent(responses[i]),
                                                        Len(KeptOf(i))) })
                  = Cardinality({ i2 \in keeping :
                                    CitationOf(GetAgent(responses[i2]), Len(KeptOf(i2)))
                                    = CitationOf(GetAgent(responses[i]), Len(KeptOf(i))) })
            /\ \A k \in 1..Len(cited) :
                  cited[k] = CitationOf(prioritized[k].agent,
                                        Len(prioritized[k].results))

\* Two bundles are cited, in the other order than given, one with a result lost
C6_Witness ==
    /\ Done
    /\ Len(compilation_result.citations) = 2
    /\ KeptOf(1) # << >>
    /\ Len(KeptOf(2)) < Len(GetResults(responses[2]))
    /\ prioritized[1].agent = GetAgent(responses[2])
    /\ prioritized[1].agent # GetAgent(responses[1])

(* C7.  With enable_contradiction_detection False, compile returns         *)
(* contradictions_found = 0, no contradiction entry in details and no      *)
(* warning in the summary, whatever the input; the rest keeps its shape:   *)
(* details is one entry per prioritized result, citations one per bundle.  *)
C7_DetectionOff ==
    (Done /\ ~ enable_contradiction_detection)
    => /\ compilation_result.metadata.contradictions_found = 0
       /\ \A k \in 1..Len(compilation_result.details) :
             ~ IsContradictionEntry(compilation_result.details[k])
       /\ ~ Contains(compilation_result.summary, WarningMark)
       /\ Len(compilation_result.details) = TotalResults(prioritized)
       /\ Len(compilation_result.citations) = Len(prioritized)

\* Detection is off and the prioritized results hold conflicting values
C7_Witness ==
    /\ Done
    /\ ~ enable_contradiction_detection
    /\ DetectContradictions(prioritized) # << >>
    /\ max_summary_length = DefaultMaxSummaryLength

(* C8 as stated.  With detection enabled, for any field name and any two   *)
(* input bundles that report it with different stringified values,         *)
(* compile produces exactly one Contradiction record for the field, and    *)
(* the record lists both (source, value) pairs.                            *)
C8_SymmetryOfInputBundles ==
    (Done /\ enable_contradiction_detection)
    => \A i, j \in 1..Len(responses) :
          i < j => ConflictsRecorded(responses[i], responses[j])

(* C8 as amended.  With detection enabled, for any field name and any two  *)
(* bundles that still report it with different stringified values after    *)
(* deduplication, compile produces exactly one Contradiction record for    *)
(* the field, and the record lists both (source, value) pairs.             *)
C8_SymmetryOfRetainedBundles ==
    (Done /\ enable_contradiction_detection)
    => \A i, j \in 1..Len(deduplicated) :
          i < j => ConflictsRecorded(deduplicated[i], deduplicated[j])

\* Two sources keep results that disagree on a field
C8_Witness ==
    /\ Done
    /\ enable_contradiction_detection
    /\ Len(deduplicated) = 2
    /\ deduplicated[1].agent # deduplicated[2].agent
    /\ Conflicts(deduplicated[1], deduplicated[2]) # {}
    /\ compilation_result.metadata.contradictions_found = 1

(* C9.  The metadata is taken from the input as given: total_results is    *)
(* the number of results of the input bundles before deduplication,        *)
(* agents_consulted the number of input bundles, query the query, and      *)
(* contradictions_found the number of Contradiction records.               *)
C9_MetadataFromInput ==
    Done =>
        /\ compilation_result.metadata.total_results = Cardinality(InputPositions)
        /\ compilation_result.metadata.agents_consulted = Len(responses)
        /\ compilation_result.metadata.query = query
        /\ compilation_result.metadata.contradictions_found = Len(contradictions)
        /\ compilation_result.metadata.contradictions_found
           = Cardinality({ f \in ObservedFields(prioritized) :
                             Cardinality(ObservedValues(prioritized, f)) > 1 })
             * (IF enable_contradiction_detection THEN 1 ELSE 0)

\* Deduplication dropped a result and a whole bundle, and fields conflict
C9_Witness ==
    /\ Done
    /\ Cardinality(InputPositions) > TotalResults(deduplicated)
    /\ Len(responses) > Len(deduplicated)
    /\ compilation_result.metadata.contradictions_found > 0

(* C10 as stated.  compile(query, []) returns a summary that starts with   *)
(* "Based on information from :", empty citations and empty details.       *)
C10_EmptyInputSpecText ==
    (Done /\ responses = << >>)
    => /\ StartsWith(compilation_result.summary, "Based on information from :")
       /\ compilation_result.citations = << >>
       /\ compilation_result.details = << >>

(* C10 as amended.  compile(query, []) returns empty citations and empty   *)
(* details, and its summary is assembled as                                *)
(* "Based on information from  systems:" (the empty join of the source     *)
(* names, then " systems:"), returned as it is when max_summary_length is  *)
(* at least its 35 characters.                                             *)
C10_EmptyInput ==
    (Done /\ responses = << >>)
    => /\ compilation_result.citations = << >>
       /\ compilation_result.details = << >>
       /\ max_summary_length >= Len(EmptyInputSummary)
             => compilation_result.summary = EmptyInputSummary
       /\ compilation_result.metadata.agents_consulted = 0

\* compile returned for the empty list under a budget that holds the summary
C10_Witness ==
    /\ Done
    /\ responses = << >>
    /\ max_summary_length >= Len(EmptyInputSummary)

---------------------------------------------------------------------------
\* C11 (truncation shape): when the assembled summary is longer than
\* max_summary_length, the returned summary has exactly max_summary_length
\* characters, ends with "..." and begins with the first
\* max_summary_length - 3 characters of the assembled summary; otherwise the
\* assembled summary is returned as it is.
C11_TruncationShape ==
    Done =>
        LET assembled == AssembleSummary(prioritized, contradictions)
            n == max_summary_length
        IN  IF Len(assembled) > n
            THEN /\ Len(summary) = n
                 /\ SubSeq(summary, n - 2, n) = "..."
                 /\ SubSeq(summary, 1, n - 3) = SubSeq(assembled, 1, n - 3)
            ELSE summary = assembled

\* The same for the budgets that leave room for the "...": what the code does
\* everywhere outside C1's failing inputs
C11_TruncationShapeFrom3 ==
    max_summary_length >= 3 => C11_TruncationShape

---------------------------------------------------------------------------
\* The sources named by the observations of a Contradiction record
SourcesOf(contra) ==
    { contra.conflicting_values[k].agent : k \in DOMAIN contra.conflicting_values }

\* C12 (contradictions are between sources): every Contradiction record is
\* for a field on which two observations of different sources differ; no
\* field is recorded when all its differing values come from one source.
C12_BetweenSources ==
    Done =>
        \A c \in DOMAIN contradictions :
            LET values == contradictions[c].conflicting_values
            IN  \E k, l \in DOMAIN values :
                    /\ values[k].agent # values[l].agent
                    /\ PyStr(values[k].value) # PyStr(values[l].value)

\* A record all of whose observations come from one source
C12_SingleSourceRecord ==
    /\ Done
    /\ \E c \in DOMAIN contradictions :
           Cardinality(SourcesOf(contradictions[c])) = 1

---------------------------------------------------------------------------
\* The number of results of the bundles in front of bundle i
RECURSIVE ResultsBefore(_, _)
ResultsBefore(resps, i) ==
    IF i <= 1 THEN 0
    ELSE ResultsBefore(resps, i - 1) + Len(resps[i - 1].results)

\* C13 (details): the returned details is the flattening of the prioritized
\* bundles in priority order, each result with its bundle's source name and
\* with the relevance score of that same result against the query; and if
\* and only if there is a Contradiction record there is one more entry, the
\* last, of source "Compiler", with type "contradictions", the whole list of
\* records and the score 1.0.
C13_DetailsFlattening ==
    Done =>
        LET d == compilation_result.details
            n == Len(prioritized)
            total == ResultsBefore(prioritized, n + 1)
        IN  /\ \A i \in 1..n :
                   \A j \in 1..Len(prioritized[i].results) :
                       LET res == prioritized[i].results[j]
                       IN  d[ResultsBefore(prioritized, i) + j] =
                               [source_agent |-> prioritized[i].agent,
                                content |-> res,
                                relevance_score |->
                                    CalculateRelevanceScore(res, QueryKeywords(query))]
            /\ Len(d) = total + (IF contradictions # << >> THEN 1 ELSE 0)
            /\ contradictions # << >> =>
                   /\ d[Len(d)].source_agent = "Compiler"
                   /\ Lookup(d[Len(d)].content, "type") = StrV("contradictions")
                   /\ Lookup(d[Len(d)].content, "items") = ListV(contradictions)
                   /\ Keys(d[Len(d)].content) = << "type", "items" >>
                   /\ d[Len(d)].relevance_score = One

\* Two prioritized bundles, one of them reordered by score, and a record
C13_Witness ==
    /\ Done
    /\ Len(prioritized) = 2
    /\ contradictions # << >>
    /\ Len(compilation_result.details) = 4
    /\ \E i \in 1..2 :
           /\ Len(prioritized[i].results) = 2
           /\ prioritized[i].relevance_scores[1] # prioritized[i].relevance_scores[2]
           /\ \E b \in DOMAIN deduplicated :
                  /\ deduplicated[b].agent = prioritized[i].agent
                  /\ Len(deduplicated[b].results) = 2
                  /\ deduplicated[b].results[1] = prioritized[i].results[2]

---------------------------------------------------------------------------
\* A CompilationResult has been returned by the thread that runs
HasResult == "metadata" \in DOMAIN compilation_result

\* C14 (frame): no step of compile changes what it was given or the
\* Compiler's configuration: from the call to the return the query and the
\* list of responses, with its bundles and their results, stay as the caller
\* passed them, and max_summary_length and enable_contradiction_detection
\* never change, over any sequence of calls.
C14_ArgumentsAndConfigKept ==
    [][ /\ max_summary_length' = max_summary_length
        /\ enable_contradiction_detection' = enable_contradiction_detection
        /\ pc \notin { "idle", "done" } =>
               /\ responses' = responses
               /\ query' = query ]_vars

\* A later call is about to return after deduplication dropped a bundle of
\* its input
C14_Witness ==
    /\ pc = "return"
    /\ HasResult
    /\ compilation_result.metadata.query # query
    /\ Len(deduplicated) < Len(responses)
    /\ Len(responses) = 2

---------------------------------------------------------------------------
\* How far a frame of compile has come
StageReached(position) ==
    CASE position = "idle" -> 0
      [] position = "deduplicate" -> 1
      [] position = "prioritize" -> 2
      [] position = "detect" -> 3
      [] position = "summarize" -> 4
      [] position = "cite" -> 5
      [] position = "detail" -> 6
      [] position = "return" -> 7
      [] position = "done" -> 8

\* Every local a frame has assigned, and the result if it has returned, is
\* what the call yields on a Compiler that never ran another call
AsOnFreshCompiler(frame) ==
    LET alone == CompileFresh(max_summary_length, enable_contradiction_detection,
                              frame.query, frame.responses)
        at == StageReached(frame.pc)
    IN  /\ at >= 2 => frame.deduplicated = alone.deduplicated
        /\ at >= 3 => frame.prioritized = alone.prioritized
        /\ at >= 4 => frame.contradictions = alone.contradictions
        /\ at >= 5 => frame.summary = alone.summary
        /\ at >= 6 => frame.citations = alone.citations
        /\ at >= 7 => frame.details = alone.details
        /\ at >= 8 => frame.compilation_result = alone.compilation_result

\* The content keys of the result entries of a CompilationResult
KeysReturned(cr) ==
    { CreateContentKey(cr.details[k].content) :
        k \in { k \in DOMAIN cr.details : ~ IsContradictionEntry(cr.details[k]) } }

\* The content keys of the results of deduplicated bundles
KeysKept(bundles) ==
    { CreateContentKey(bundles[i].results[j]) :
        <<i, j>> \in UNION { { <<b, r>> : r \in DOMAIN bundles[b].results } :
                               b \in DOMAIN bundles } }

\* C15 (no state between calls): after any sequence of earlier calls on the
\* same Compiler, compile(query, responses) returns what it returns as the
\* first call on a fresh Compiler of the same configuration; in particular
\* the deduplication of a call starts from no seen key, whatever the earlier
\* calls have seen.
C15_SameAsOnFreshCompiler ==
    /\ Done =>
           compilation_result =
               CompileFresh(max_summary_length, enable_contradiction_detection,
                            query, responses).compilation_result
    /\ StageReached(pc) \in 2..7 =>
           deduplicated = DedupFrom(responses, 1, {}, << >>)

\* A later call has run its stages and kept a result whose content key the
\* earlier call had seen and returned
C15_Witness ==
    /\ pc = "return"
    /\ HasResult
    /\ compilation_result.metadata.query # query
    /\ KeysReturned(compilation_result) \cap KeysKept(deduplicated) # {}

\* C16 (concurrent calls): with two calls interleaved at any stage boundary
\* on one Compiler, each call's deduplicated bundles, intermediate outputs
\* and returned result are those of the call run alone, and no step writes
\* max_summary_length or enable_contradiction_detection.
C16_CallsIndependent ==
    /\ [](AsOnFreshCompiler(Frame) /\ AsOnFreshCompiler(other))
    /\ [][ /\ max_summary_length' = max_summary_length
           /\ enable_contradiction_detection' = enable_contradiction_detection ]_vars

\* Both calls are under way and past deduplication, and they kept results of
\* a common content key
C16_Witness ==
    /\ StageReached(pc) \in 2..7
    /\ StageReached(other.pc) \in 2..7
    /\ query # other.query
    /\ KeysKept(deduplicated) \cap KeysKept(other.deduplicated) # {}
    /\ KeysKept(deduplicated) # KeysKept(other.deduplicated)

---------------------------------------------------------------------------
\* Degenerate arguments: no bundle, no keyword in the query, or a bundle
\* without results
Degenerate(q, resps) ==
    \/ resps = << >>
    \/ QueryKeywords(q) = {}
    \/ \E i \in DOMAIN resps : GetResults(resps[i]) = << >>

\* No bundle of the input has a result
NothingToCompile(resps) ==
    \A i \in DOMAIN resps : GetResults(resps[i]) = << >>

\* C17 (degenerate input is no error): on an empty list of responses, an
\* empty or whitespace-only query, bundles with no results, or any mix of
\* these, compile goes through its stages and returns a CompilationResult.
\* A bundle with no results goes into nothing but agents_consulted; with
\* nothing to compile the result is the one of the empty list; with no
\* keyword in the query every relevance score is 0.0 and the bundles and
\* results stay in their order after deduplication.
C17_DegenerateInputCompletes ==
    Degenerate(query, responses) =>
        /\ Done =>
               /\ DOMAIN compilation_result =
                      { "summary", "details", "citations", "metadata" }
               /\ compilation_result.metadata.agents_consulted = Len(responses)
               /\ Len(compilation_result.citations) =
                      Cardinality({ i \in DOMAIN responses : KeptOf(i) # << >> })
        /\ (Done /\ NothingToCompile(responses)) =>
               /\ compilation_result.details = << >>
               /\ compilation_result.citations = << >>
               /\ compilation_result.summary =
                      Truncate(EmptyInputSummary, max_summary_length)
               /\ compilation_result.metadata =
                      [query |-> query, agents_consulted |-> Len(responses),
                       total_results |-> 0, contradictions_found |-> 0]
        /\ (QueryKeywords(query) = {} /\ StageReached(pc) >= 3) =>
               /\ \A i \in DOMAIN prioritized :
                      \A j \in DOMAIN prioritized[i].relevance_scores :
                          prioritized[i].relevance_scores[j] = Zero
               /\ [i \in DOMAIN prioritized |->
                      [agent |-> prioritized[i].agent,
                       results |-> prioritized[i].results]] = deduplicated
        /\ (QueryKeywords(query) = {} /\ Done) =>
               \A k \in ResultEntries :
                   compilation_result.details[k].relevance_score = Zero

\* A call with a whitespace-only query, a bundle without results and a
\* bundle with a result has returned
C17_Witness ==
    /\ Done
    /\ query # ""
    /\ QueryKeywords(query) = {}
    /\ \E i \in DOMAIN responses : GetResults(responses[i]) = << >>
    /\ ResultEntries # {}
    /\ compilation_result.metadata.query = query

\* The same with nothing to compile at all
C17_WitnessEmpty ==
    /\ Done
    /\ query = "  "
    /\ responses = << >>
    /\ compilation_result.details = << >>

---------------------------------------------------------------------------
\* A bundle that lacks its source name or its results
LacksKey(response) ==
    "agent" \notin DOMAIN response \/ "results" \notin DOMAIN response

\* The bundles with the missing keys written out: the name "Unknown", no
\* results
WithDefaults(resps) ==
    [i \in DOMAIN resps |->
        [agent |-> IF "agent" \in DOMAIN resps[i] THEN resps[i].agent ELSE "Unknown",
         results |-> IF "results" \in DOMAIN resps[i] THEN resps[i].results ELSE << >>]]

\* C18 as stated (malformed bundles fail fast): a call whose input has a
\* bundle without source name or without results does not return a result.
C18_FailsFast ==
    (\E i \in DOMAIN responses : LacksKey(responses[i])) => ~ Done

\* C18 as the code has it (malformed bundles are defaulted): a bundle
\* without source name is compiled under the name "Unknown", a bundle without
\* results as one with no results; the call returns what it returns for the
\* same bundles with these defaults written out.
C18_MissingKeysDefaulted ==
    (Done /\ \E i \in DOMAIN responses : LacksKey(responses[i])) =>
        /\ compilation_result =
               CompileFresh(max_summary_length, enable_contradiction_detection,
                            query, WithDefaults(responses)).compilation_result
        /\ \A i \in DOMAIN responses :
               ("agent" \notin DOMAIN responses[i] /\ KeptOf(i) # << >>) =>
                   \E k \in ResultEntries :
                       /\ compilation_result.details[k].source_agent = "Unknown"
                       /\ compilation_result.details[k].content = KeptOf(i)[1]
        /\ compilation_result.metadata.agents_consulted = Len(responses)

\* A call has returned for a bundle without name, whose result is reported
\* under "Unknown", and a bundle without results
C18_Witness ==
    /\ Done
    /\ \E i \in DOMAIN responses :
           /\ "agent" \notin DOMAIN responses[i]
           /\ "results" \in DOMAIN responses[i]
    /\ \E i \in DOMAIN responses : "results" \notin DOMAIN responses[i]
    /\ \E k \in ResultEntries :
           compilation_result.details[k].source_agent = "Unknown"
    /\ compilation_result.citations = << "Unknown Agent (1 result(s))" >>

---------------------------------------------------------------------------
\* The relevance score of a result against the query of the call
ScoreOf(res) == CalculateRelevanceScore(res, QueryKeywords(query))

\* The scores of the results of the deduplicated bundles, bundle by bundle
DeduplicatedScores ==
    [b \in DOMAIN deduplicated |->
        [j \in DOMAIN deduplicated[b].results |-> ScoreOf(deduplicated[b].results[j])]]

\* Score a goes in front of score b at positions i and j of one list: it is
\* larger, or it is equal and stands earlier
GoesFirst(a, i, b, j) == ScoreLess(b, a) \/ (a = b /\ i < j)

\* The place of position j in a list of scores sorted that way
Rank(scores, j) ==
    1 + Cardinality({ k \in DOMAIN scores : GoesFirst(scores[k], k, scores[j], j) })

\* The highest of a non-empty list of scores
Highest(scores) ==
    CHOOSE s \in Range(scores) : \A t \in Range(scores) : ~ ScoreLess(s, t)

\* C19 (order of prioritization): within each bundle the results stand by
\* non-increasing relevance score, results of equal score in their order
\* after deduplication; the bundles stand by non-increasing highest score,
\* bundles of equal highest score in their input order; so the first entry
\* of details has the largest score of all result entries.  The places are
\* stated where step 2 has just run, the scores wherever they are held.
C19_PrioritizationOrder ==
    /\ pc = "detect" =>
           LET scores == DeduplicatedScores
               tops == [b \in DOMAIN deduplicated |-> Highest(scores[b])]
           IN  /\ Len(prioritized) = Len(deduplicated)
               /\ \A b \in DOMAIN deduplicated :
                      LET bundle == prioritized[Rank(tops, b)]
                      IN  /\ bundle.agent = deduplicated[b].agent
                          /\ Len(bundle.results) = Len(deduplicated[b].results)
                          /\ \A j \in DOMAIN deduplicated[b].results :
                                 /\ bundle.results[Rank(scores[b], j)] =
                                        deduplicated[b].results[j]
                                 /\ bundle.relevance_scores[Rank(scores[b], j)] =
                                        scores[b][j]
    /\ Prioritized =>
           /\ \A i \in DOMAIN prioritized :
                  \A j \in 2..Len(prioritized[i].relevance_scores) :
                      ~ ScoreLess(prioritized[i].relevance_scores[j - 1],
                                  prioritized[i].relevance_scores[j])
           /\ \A i \in 2..Len(prioritized) :
                  ~ ScoreLess(prioritized[i - 1].relevance_scores[1],
                              prioritized[i].relevance_scores[1])
    /\ Done =>
           \A k \in ResultEntries :
               ~ ScoreLess(compilation_result.details[1].relevance_score,
                           compilation_result.details[k].relevance_score)

\* The second bundle of the input went in front of the first by its score,
\* and the two results of the first, of equal score, kept their order
C19_Witness ==
    /\ Done
    /\ Len(deduplicated) = 2
    /\ ScoreLess(Highest(DeduplicatedScores[1]), Highest(DeduplicatedScores[2]))
    /\ prioritized[1].agent = deduplicated[2].agent
    /\ prioritized[1].agent # prioritized[2].agent
    /\ Len(deduplicated[1].results) = 2
    /\ DeduplicatedScores[1][1] = DeduplicatedScores[1][2]
    /\ prioritized[2].results = deduplicated[1].results

\* Two bundles of equal highest score, not zero, kept their input order
C19_WitnessTie ==
    /\ Done
    /\ Len(deduplicated) = 2
    /\ Highest(DeduplicatedScores[1]) = Highest(DeduplicatedScores[2])
    /\ Highest(DeduplicatedScores[1]) # Zero
    /\ prioritized[1].agent = deduplicated[1].agent
    /\ prioritized[1].agent # prioritized[2].agent

---------------------------------------------------------------------------
\* The text of the summary before truncation
Assembled == AssembleSummary(prioritized, contradictions)

\* Where the bullet lines of a text start: the places of a bullet that
\* follows a line feed
BulletStarts(text) ==
    { i \in 2..Len(text) : SubSeq(text, i - 1, i) = "\n" \o Bullet }

\* The place where the k-th bullet line of a text starts
BulletStart(text, k) ==
    CHOOSE i \in BulletStarts(text) :
        Cardinality({ j \in BulletStarts(text) : j < i }) = k - 1

\* A line of the text starts at place i and reads line
LineAt(text, i, line) ==
    /\ i + Len(line) - 1 <= Len(text)
    /\ SubSeq(text, i, i + Len(line) - 1) = line
    /\ i + Len(line) <= Len(text) => SubSeq(text, i + Len(line), i + Len(line)) = "\n"

\* The first three prioritized bundles, or all if there are fewer
FirstThree == SubSeq(prioritized, 1, IF Len(prioritized) < 3 THEN Len(prioritized) ELSE 3)

\* The bullet line of a bundle
BulletOf(bundle) ==
    Bullet \o " " \o bundle.agent \o ": " \o FormatResultSummary(bundle.results[1])

TopIsMapping(bundle) == IsDict(bundle.results[1])

\* The bundles among bundles whose top result is a mapping, in order
RECURSIVE MappingTopped(_)
MappingTopped(bundles) ==
    IF bundles = << >> THEN << >>
    ELSE (IF TopIsMapping(bundles[1]) THEN << bundles[1] >> ELSE << >>)
         \o MappingTopped(Tail(bundles))

\* Step 3 has run, so the summary can be assembled
Detected == StageReached(pc) >= 4

\* C20 as stated (key-finding bullets): the summary before truncation has,
\* after the introduction, exactly one bullet line for each of the first
\* min(3, n) prioritized bundles, in priority order, whatever the kind of
\* the bundle's top result, and none for the fourth and later bundles.
C20_BulletPerBundle ==
    Detected =>
        LET text == Assembled
        IN  /\ Cardinality(BulletStarts(text)) = Len(FirstThree)
            /\ \A k \in DOMAIN FirstThree :
                   StartsWith(SubSeq(text, BulletStart(text, k), Len(text)),
                              Bullet \o " " \o FirstThree[k].agent \o ": ")

\* C20 as the code has it: the bullet lines are those of the bundles among
\* the first min(3, n) prioritized ones whose top result is a mapping, in
\* priority order, each "<bullet> <source>: <summary of the top result>";
\* a bundle whose top result is no mapping, and the fourth and later
\* bundles, have no bullet line.  The text starts with the introduction.
C20_BulletPerMappingBundle ==
    Detected =>
        LET text == Assembled
            expected == MappingTopped(FirstThree)
        IN  /\ Cardinality(BulletStarts(text)) = Len(expected)
            /\ \A k \in DOMAIN expected :
                   LineAt(text, BulletStart(text, k), BulletOf(expected[k]))
            /\ StartsWith(text, "Based on information from ")

\* Four prioritized bundles: the first with a top result that is no mapping,
\* the others with mappings; two bullet lines, none for the first and none
\* for the fourth; the summary is returned untruncated
C20_Witness ==
    /\ Done
    /\ Len(prioritized) = 4
    /\ ~ TopIsMapping(prioritized[1])
    /\ TopIsMapping(prioritized[2]) /\ TopIsMapping(prioritized[3])
    /\ TopIsMapping(prioritized[4])
    /\ Cardinality(BulletStarts(Assembled)) = 2
    /\ compilation_result.summary = Assembled

---------------------------------------------------------------------------
\* The rank of an important field: the smaller, the earlier it is tried
FieldPriority(name) ==
    CASE name = "description" -> 1
      [] name = "summary"     -> 2
      [] name = "title"       -> 3
      [] name = "status"      -> 4
      [] name = "value"       -> 5
      [] name = "result"      -> 6

IsImportant(name) ==
    name \in { "description", "summary", "title", "status", "value", "result" }

\* The one-line summary a mapping is to have
OneLineSummary(res) ==
    LET present == { k \in DOMAIN res.items : IsImportant(res.items[k].key) }
    IN  IF present # {}
        THEN LET winner == CHOOSE k \in present :
                               \A l \in present :
                                   FieldPriority(res.items[k].key)
                                       <= FieldPriority(res.items[l].key)
             IN  PyStr(res.items[winner].value)
        ELSE IF res.items # << >>
             THEN res.items[1].key \o ": " \o PyStr(res.items[1].value)
             ELSE "No details available"

\* C21 (one-line summary of a mapping): it is the stringified value of the
\* first field present among description, summary, title, status, value,
\* result, tried in that order whatever the order of the mapping's fields;
\* with none of them present it is "<first field name>: <first field
\* value>"; for a mapping without fields it is "No details available".
\* Stated on the bullet line of a bundle whose top result is that mapping.
C21_OneLineSummary ==
    (Detected /\ Len(prioritized) = 1 /\ TopIsMapping(prioritized[1])
              /\ contradictions = << >>) =>
        Assembled = "Based on information from " \o prioritized[1].agent
                    \o " systems:\n" \o Bullet \o " " \o prioritized[1].agent
                    \o ": " \o OneLineSummary(prioritized[1].results[1])

\* A mapping whose first field is a later-tried important field and whose
\* second field is an earlier-tried one has been summarized and returned
C21_Witness ==
    /\ Done
    /\ Len(prioritized) = 1
    /\ LET res == prioritized[1].results[1]
       IN  /\ IsDict(res)
           /\ Len(res.items) = 2
           /\ IsImportant(res.items[1].key) /\ IsImportant(res.items[2].key)
           /\ FieldPriority(res.items[2].key) < FieldPriority(res.items[1].key)
           /\ compilation_result.summary =
                  "Based on information from LIMS systems:\n" \o Bullet
                  \o " LIMS: " \o PyStr(res.items[2].value)

\* A mapping with no important field, and the mapping without fields
C21_WitnessFallback ==
    /\ Done
    /\ compilation_result.summary \in
           { "Based on information from LIMS systems:\n" \o Bullet \o " LIMS: lot: A",
             "Based on information from LIMS systems:\n" \o Bullet
                 \o " LIMS: No details available" }

---------------------------------------------------------------------------
(* C22: one record per contradictory field *)

\* The places <<bundle, result>> of the retained mapping results that have
\* field f
Occurrences(f) ==
    UNION { { << i, j >> : j \in { n \in 1..Len(GetResults(deduplicated[i])) :
                                     /\ IsDict(GetResults(deduplicated[i])[n])
                                     /\ HasKey(GetResults(deduplicated[i])[n], f) } } :
            i \in 1..Len(deduplicated) }

\* What the retained result at place o reports for field f, and from whom
Observation(f, o) ==
    [agent |-> GetAgent(deduplicated[o[1]]),
     value |-> Lookup(GetResults(deduplicated[o[1]])[o[2]], f)]

\* Field f occurs in two or more retained mapping results and its values
\* have more than one string form
Disputed(f) ==
    /\ Cardinality(Occurrences(f)) >= 2
    /\ Cardinality({ PyStr(Observation(f, o).value) : o \in Occurrences(f) }) > 1

\* The records of contradictions that are about field f
RecordsOf(f) == { c \in DOMAIN contradictions : contradictions[c].field = f }

C22_WitnessAgreed ==
    /\ pc = "summarize" /\ enable_contradiction_detection
    /\ Len(contradictions) = 1
    /\ \E f \in ObservedFields(deduplicated) :
           Cardinality(Occurrences(f)) >= 2 /\ ~ Disputed(f) /\ RecordsOf(f) = {}

---------------------------------------------------------------------------
(* C23: what counts as a different value *)

\* Two texts that differ in letter case and in nothing else
DifferOnlyInCase(v, w) ==
    /\ v.kind = "str" /\ w.kind = "str"
    /\ v.s # w.s
    /\ Lower(v.s) = Lower(w.s)

\* A number and the text of its decimal digits
DifferOnlyInType(v, w) ==
    \/ v.kind = "int" /\ w.kind = "str" /\ w.s = IntToStr(v.n)
    \/ v.kind = "str" /\ w.kind = "int" /\ v.s = IntToStr(w.n)

\* The values the retained mapping results report for field f
ValuesOf(f) == { Observation(f, o).value : o \in Occurrences(f) }

\* C23 as stated (case- and type-sensitive comparison): two observed values
\* of a field that differ only in letter case, or only in type such as 1 and
\* "1", count as distinct and give a Contradiction record for the field.
C23_CaseAndTypeSensitive ==
    (pc = "summarize" /\ enable_contradiction_detection) =>
        \A f \in ObservedFields(deduplicated) :
            (\E v, w \in ValuesOf(f) : DifferOnlyInCase(v, w) \/ DifferOnlyInType(v, w))
                => RecordsOf(f) # {}

\* C23 as the code has it: the comparison is of the str() forms, so it is
\* case-sensitive and not type-sensitive: two observed values that differ
\* only in letter case give a record for the field, while values that differ
\* only in type, such as 1 and "1", count as one value, and a field all of
\* whose values have the same str() form gets no record.
C23_CaseSensitiveOnStrForm ==
    (pc = "summarize" /\ enable_contradiction_detection) =>
        \A f \in ObservedFields(deduplicated) :
            /\ (\E v, w \in ValuesOf(f) : DifferOnlyInCase(v, w)) => RecordsOf(f) # {}
            /\ (\A v, w \in ValuesOf(f) : v = w \/ DifferOnlyInType(v, w))
                   => RecordsOf(f) = {}

\* One call in which a field reported as "PASS" and as "pass" is recorded and
\* a field reported as 1 and as "1" is not
C23_Witness ==
    /\ pc = "summarize" /\ enable_contradiction_detection
    /\ \E f \in ObservedFields(deduplicated) :
           /\ \E v, w \in ValuesOf(f) : DifferOnlyInCase(v, w)
           /\ \A v, w \in ValuesOf(f) : v = w \/ DifferOnlyInCase(v, w)
           /\ RecordsOf(f) # {}
    /\ \E f \in ObservedFields(deduplicated) :
           /\ \E v, w \in ValuesOf(f) : DifferOnlyInType(v, w)
           /\ RecordsOf(f) = {}

---------------------------------------------------------------------------
(* C24: no bundle without results after deduplication *)

\* The input bundles of which deduplication retains a result
RetainedBundles == { i \in 1..Len(responses) : KeptOf(i) # << >> }

\* The input bundles that have no result, and those whose results are all
\* discarded as duplicates
EmptyBundles == { i \in 1..Len(responses) : GetResults(responses[i]) = << >> }

EmptiedBundles ==
    { i \in 1..Len(responses) : GetResults(responses[i]) # << >> /\ KeptOf(i) = << >> }

\* The introductory line for a list of bundles
IntroLine(bundles) ==
    "Based on information from "
    \o Join(", ", [i \in 1..Len(bundles) |-> bundles[i].agent])
    \o " systems:"

\* C24 (no empty bundle): the deduplicated output has no bundle with zero
\* results; an input bundle without results, or with all its results
\* discarded as duplicates, is absent from every later stage: every bundle
\* that reaches prioritization has a result, the introductory line names the
\* retained bundles only, and there are bullets, citations and detail entries
\* for retained bundles only.
C24_NoEmptyBundle ==
    Done =>
        /\ \A i \in DOMAIN deduplicated : Len(deduplicated[i].results) >= 1
        /\ \A i \in DOMAIN prioritized : Len(prioritized[i].results) >= 1
        /\ Len(deduplicated) = Cardinality(RetainedBundles)
        /\ Len(prioritized) = Cardinality(RetainedBundles)
        /\ Len(citations) = Cardinality(RetainedBundles)
        /\ \A k \in DOMAIN citations :
               citations[k] = CitationOf(prioritized[k].agent, Len(prioritized[k].results))
        /\ max_summary_length = DefaultMaxSummaryLength =>
               /\ StartsWith(summary, IntroLine(prioritized))
               /\ Cardinality(BulletStarts(summary)) <= Cardinality(RetainedBundles)
        /\ Cardinality({ k \in DOMAIN details : ~ IsContradictionEntry(details[k]) })
               = TotalResults(deduplicated)
        /\ (RetainedBundles = {}) =>
               /\ details = << >> /\ citations = << >>
               /\ max_summary_length = DefaultMaxSummaryLength =>
                      summary = EmptyInputSummary

\* A call is done that was given a bundle without results, or one whose
\* results had all been seen in an earlier bundle, next to a bundle that is
\* retained
C24_Witness ==
    /\ Done
    /\ EmptiedBundles # {}
    /\ RetainedBundles # {}
    /\ max_summary_length = DefaultMaxSummaryLength

\* A call is done that was given only bundles without results
C24_WitnessEmpty ==
    /\ Done
    /\ EmptyBundles # {}
    /\ RetainedBundles = {}

---------------------------------------------------------------------------
(* C25: the three outputs agree on the contradictions *)

\* text ends with suffix
EndsWith(text, suffix) ==
    Len(suffix) <= Len(text)
    /\ SubSeq(text, Len(text) - Len(suffix) + 1, Len(text)) = suffix

\* The warning line that states the count n, as it closes the summary
WarningLine(n) ==
    "\n\n" \o WarningSign \o " Note: " \o IntToStr(n)
    \o " potential contradiction(s) detected. Please review the detailed results."

\* The largest count looked for in a warning line
MaxStatedCount == 20

\* The counts a warning line at the end of text states
StatedCounts(text) == { n \in 0..MaxStatedCount : EndsWith(text, WarningLine(n)) }

\* The entries of the returned details that are the Compiler's own
CompilerEntries ==
    { k \in DOMAIN compilation_result.details :
        IsContradictionEntry(compilation_result.details[k]) }

\* C25 (outputs agree on contradictions): the summary before truncation ends
\* with a warning line if and only if a contradiction was detected; the count
\* the line states is metadata.contradictions_found, which is the number of
\* records in the Compiler's entry that closes details; that entry exists if
\* and only if the count is greater than zero.
C25_OutputsAgree ==
    Done =>
        LET found == compilation_result.metadata.contradictions_found
            entries == compilation_result.details
        IN  /\ found = Len(contradictions)
            /\ StatedCounts(Assembled) = (IF found > 0 THEN { found } ELSE {})
            /\ found = 0 => ~ Contains(Assembled, WarningSign)
            /\ max_summary_length = DefaultMaxSummaryLength =>
                   compilation_result.summary = Assembled
            /\ CompilerEntries = (IF found > 0 THEN { Len(entries) } ELSE {})
            /\ found > 0 =>
                   /\ HasKey(entries[Len(entries)].content, "items")
                   /\ Lookup(entries[Len(entries)].content, "items").kind = "list"
                   /\ Len(Lookup(entries[Len(entries)].content, "items").elems) = found

\* A call is done with two contradictions, and its summary is not truncated
C25_Witness ==
    /\ Done
    /\ compilation_result.metadata.contradictions_found = 2
    /\ max_summary_length = DefaultMaxSummaryLength
    /\ EndsWith(compilation_result.summary, WarningLine(2))

\* A call is done with results and no contradiction, detection being enabled
C25_WitnessNone ==
    /\ Done
    /\ enable_contradiction_detection
    /\ compilation_result.metadata.contradictions_found = 0
    /\ Len(compilation_result.details) >= 2

---------------------------------------------------------------------------
(* C26: the sizes of details and citations *)

\* C26 (output sizes): details has at least as many entries as there are
\* results after deduplication and at most one more; citations has at most as
\* many entries as the input has bundles.
C26_OutputSizes ==
    Done =>
        /\ Len(compilation_result.details) >= TotalResults(deduplicated)
        /\ Len(compilation_result.details) <= TotalResults(deduplicated) + 1
        /\ Len(compilation_result.citations) <= Len(responses)

\* A call is done whose details has one entry more than there are retained
\* results, fewer retained than given, and a citation for each input bundle
C26_Witness ==
    /\ Done
    /\ Len(compilation_result.details) = TotalResults(deduplicated) + 1
    /\ TotalResults(deduplicated) < TotalResults(responses)
    /\ Len(compilation_result.citations) = Len(responses)
    /\ Len(responses) = MaxBundles

\* A call is done with fewer citations than input bundles and as many
\* details as retained results
C26_WitnessFewer ==
    /\ Done
    /\ Len(compilation_result.citations) < Len(responses)
    /\ Len(compilation_result.details) = TotalResults(deduplicated)
    /\ TotalResults(deduplicated) > 0

---------------------------------------------------------------------------
(* C27: after step 1 nothing reads the caller's list *)

\* Two calls on the Compiler have returned, for the same query, and step 1
\* gave both the same list of bundles
SameAfterDeduplication ==
    /\ pc = "done" /\ other.pc = "done"
    /\ query = other.query
    /\ deduplicated = other.deduplicated

\* C27 (stages isolated from the raw input): for the same query and
\* configuration, two inputs whose deduplicated bundle lists are equal give
\* the same summary, details and citations; of the metadata only
\* total_results and agents_consulted can differ.
C27_SameAfterStageOne ==
    SameAfterDeduplication =>
        /\ compilation_result.summary = other.compilation_result.summary
        /\ compilation_result.details = other.compilation_result.details
        /\ compilation_result.citations = other.compilation_result.citations
        /\ compilation_result.metadata.query = other.compilation_result.metadata.query
        /\ compilation_result.metadata.contradictions_found
               = other.compilation_result.metadata.contradictions_found

\* Two calls have returned whose inputs differ in a result discarded as a
\* duplicate and in a bundle without results, with the same retained bundle
C27_Witness ==
    /\ SameAfterDeduplication
    /\ deduplicated # << >>
    /\ responses # other.responses
    /\ compilation_result.metadata.total_results
           # other.compilation_result.metadata.total_results
    /\ TotalResults(responses) > TotalResults(deduplicated)

\* Two calls have returned whose inputs have different numbers of bundles,
\* none of which is retained
C27_WitnessEmpty ==
    /\ SameAfterDeduplication
    /\ deduplicated = << >>
    /\ compilation_result.metadata.agents_consulted
           # other.compilation_result.metadata.agents_consulted

---------------------------------------------------------------------------
(* C28: what deduplication may discard *)

\* Two results with the same content: mappings with the same non-reserved
\* field names and values, or the same value that is not a mapping
SameResult(r1, r2) ==
    IF IsDict(r1) /\ IsDict(r2) THEN NonReserved(r1) = NonReserved(r2)
    ELSE r1 = r2

\* No earlier result of the input has the content of the result at p
FirstOfItsContent(p) ==
    ~ \E q \in InputPositions : Before(q, p) /\ SameResult(InputResult(q), InputResult(p))

\* The results deduplication retained
RetainedResults ==
    UNION { Range(deduplicated[i].results) : i \in DOMAIN deduplicated }

\* C28 (no distinct content discarded): a result is dropped only if an
\* earlier retained result has the same content, so every result that is the
\* first of its content is retained, and two results that differ in a
\* non-reserved field name or value, or in kind, never share a content key.
C28_DistinctContentKept ==
    pc = "prioritize" =>
        /\ \A p \in InputPositions :
               FirstOfItsContent(p) => InputResult(p) \in RetainedResults
        /\ \A p, q \in InputPositions :
               CreateContentKey(InputResult(p)) = CreateContentKey(InputResult(q))
                   => SameResult(InputResult(p), InputResult(q))

---------------------------------------------------------------------------
(* C29: results are conserved *)

\* The strictly increasing maps of 1..n into 1..m
Embeddings(n, m) ==
    { f \in [1..n -> 1..m] : \A k, l \in 1..n : k < l => f[k] < f[l] }

\* a is b with some elements left out
IsSubsequence(a, b) ==
    \E f \in Embeddings(Len(a), Len(b)) : \A k \in 1..Len(a) : a[k] = b[f[k]]

\* How many entries of the returned details attribute content res to agent
EntriesWith(agent, res) ==
    Cardinality({ k \in ResultEntries :
                    /\ compilation_result.details[k].source_agent = agent
                    /\ compilation_result.details[k].content = res })

\* How many retained results of bundles named agent are res
RetainedWith(agent, res) ==
    Cardinality(UNION { { << i, j >> : j \in { n \in DOMAIN deduplicated[i].results :
                                                 deduplicated[i].results[n] = res } } :
                        i \in { b \in DOMAIN deduplicated : deduplicated[b].agent = agent } })

\* C29 (conservation): the retained bundles are, in input order, input
\* bundles with their source names, each with a subsequence of its input
\* results; every result entry of details has as content an input result of
\* a bundle of the entry's source name; and each retained result appears in
\* details exactly once.
C29_ResultsConserved ==
    Done =>
        /\ \E f \in Embeddings(Len(deduplicated), Len(responses)) :
               \A i \in DOMAIN deduplicated :
                   /\ deduplicated[i].agent = GetAgent(responses[f[i]])
                   /\ IsSubsequence(deduplicated[i].results, GetResults(responses[f[i]]))
        /\ \A k \in ResultEntries :
               \E i \in DOMAIN responses :
                   /\ GetAgent(responses[i]) = compilation_result.details[k].source_agent
                   /\ compilation_result.details[k].content \in Range(GetResults(responses[i]))
        /\ Cardinality(ResultEntries) = TotalResults(deduplicated)
        /\ \A i \in DOMAIN deduplicated :
               \A j \in DOMAIN deduplicated[i].results :
                   EntriesWith(deduplicated[i].agent, deduplicated[i].results[j])
                       = RetainedWith(deduplicated[i].agent, deduplicated[i].results[j])

\* A call is done that retained two results of one bundle, dropped a third,
\* reordered its bundles by score and has a result entry for every retained
\* result
C29_Witness ==
    /\ Done
    /\ \E i \in DOMAIN deduplicated : Len(deduplicated[i].results) = 2
    /\ TotalResults(deduplicated) < TotalResults(responses)
    /\ Len(deduplicated) = 2
    /\ prioritized[1].agent = deduplicated[2].agent
    /\ prioritized[1].results = deduplicated[2].results
    /\ prioritized[1].results # deduplicated[1].results

---------------------------------------------------------------------------
(* C30: bundles of one source name stay apart *)

\* The source names of the input
InputNames == { GetAgent(responses[i]) : i \in 1..Len(responses) }

\* The input bundles named agent of which a result is retained
RetainedNamed(agent) == { i \in RetainedBundles : GetAgent(responses[i]) = agent }

\* The bundles named agent in a list of bundles
Named(bundles, agent) == { i \in DOMAIN bundles : bundles[i].agent = agent }

\* The citations of the returned result that are for agent
CitationsFor(agent) ==
    { k \in DOMAIN compilation_result.citations :
        StartsWith(compilation_result.citations[k], agent \o " Agent (") }

\* C30 (no merging by source name): input bundles with the same source name
\* that each retain a result stay separate bundles: for every name there are
\* as many deduplicated bundles, prioritized bundles and citations, and as
\* many occurrences of the name in the introductory line, as there are
\* retained input bundles of that name; a contradiction record lists the
\* values of such bundles under the one name.
C30_NotMergedByName ==
    Done =>
        /\ \A agent \in InputNames :
               LET n == Cardinality(RetainedNamed(agent))
               IN  /\ Cardinality(Named(deduplicated, agent)) = n
                   /\ Cardinality(Named(prioritized, agent)) = n
                   /\ Cardinality(CitationsFor(agent)) = n
        /\ max_summary_length = DefaultMaxSummaryLength =>
               StartsWith(compilation_result.summary, IntroLine(prioritized) \o "\n")
               \/ compilation_result.summary = IntroLine(prioritized)
        /\ \A c \in DOMAIN contradictions :
               \A agent \in InputNames :
                   Cardinality({ k \in DOMAIN contradictions[c].conflicting_values :
                                   contradictions[c].conflicting_values[k].agent = agent })
                   = Cardinality({ o \in Occurrences(contradictions[c].field) :
                                     deduplicated[o[1]].agent = agent })

\* A call is done that was given two bundles of one name which both retain a
\* result and differ on a field: two citations for the name, the name twice
\* in the introduction, and a record with two values under it
C30_Witness ==
    /\ Done
    /\ max_summary_length = DefaultMaxSummaryLength
    /\ \E agent \in InputNames :
           /\ Cardinality(RetainedNamed(agent)) = 2
           /\ Cardinality(CitationsFor(agent)) = 2
           /\ StartsWith(compilation_result.summary,
                         "Based on information from " \o agent \o ", " \o agent \o " systems:")
           /\ \E c \in DOMAIN contradictions :
                  /\ Len(contradictions[c].conflicting_values) = 2
                  /\ \A k \in DOMAIN contradictions[c].conflicting_values :
                         contradictions[c].conflicting_values[k].agent = agent

====
